---------------------------- MODULE Spec2Model ----------------------------
(***************************************************************************)
(* The control core of the BEC robot sketches.                             *)
(*                                                                         *)
(*   - the integrated sketch (sensors + motor controller + FSM) printed in *)
(*     WIRING_GUIDE.md, lines 140-553;                                     *)
(*   - the serial command sketch motor_controller/motor_controller.ino;    *)
(*   - the button-input sketch printed in WIRING_GUIDE.md, lines 555-780.  *)
(*                                                                         *)
(* Time.  The sketches use millis() only in differences "now - lastX"      *)
(* compared with a constant, so the model keeps, for each lastX, the time  *)
(* elapsed since lastX as of the latest millis() read, saturated at the    *)
(* first value that decides the comparison.  Every millis() read draws the *)
(* time that passed since the previous read from Dts.                      *)
(*                                                                         *)
(* Distances.  A double distance is kept as an integer count of 1/100000   *)
(* cm, in which dur * 0.0343 / 2.0 is exactly dur * 1715 and every         *)
(* calibration constant is a whole number.                                 *)
(***************************************************************************)
EXTENDS Integers, Sequences, FiniteSets

VARIABLES
    motor,        \* speeds, targets, H-bridge lines, currentDirection
    rampElapsed,  \* millis() - lastRampUpdate, saturated at RAMP_DELAY_MS
    dist,         \* leftDistCM, rightDistCM, frontDistCM
    pingElapsed,  \* millis() - last{Left,Right,Front}Ping, saturated
    button,       \* lastRawButton, stableButtonState, elapsed since lastChangeTime
    state,        \* the FSM phase
    running,      \* the run flag
    pc,           \* the next step of loop()
    mode,         \* #define MODE: 1 = loop_full, 2 = loop_testLeftOnly
    hist          \* history of the run, read by the properties only

vars == <<motor, rampElapsed, dist, pingElapsed, button, state, running, pc, mode, hist>>

-----------------------------------------------------------------------------
(* Program constants *)

MAX_SPEED == 255
RAMP_RATE == 5
RAMP_DELAY_MS == 20
RAMP_RATE_INO == 10
PING_INTERVAL == 100
debounceMs == 50
DRIVE_MAX_PCT == 100
TURN_SLOW_PCT == 50

-----------------------------------------------------------------------------
(* Arduino arithmetic helpers *)

Min(a, b) == IF a < b THEN a ELSE b
Max(a, b) == IF a > b THEN a ELSE b
Abs(a) == IF a < 0 THEN -a ELSE a

\* C integer division truncates toward zero
CDiv(a, b) == IF (a >= 0) = (b > 0) THEN Abs(a) \div Abs(b) ELSE -(Abs(a) \div Abs(b))

ConstrainUpperOnly(amt, low, high) == IF amt > high THEN high ELSE amt

\* #define constrain(amt,low,high) ((amt)<(low)?(low):((amt)>(high)?(high):(amt)))
constrain(amt, low, high) == IF amt < low THEN low ELSE IF amt > high THEN high ELSE amt

\* long map(x, in_min, in_max, out_min, out_max)
map(x, in_min, in_max, out_min, out_max) ==
    CDiv((x - in_min) * (out_max - out_min), in_max - in_min) + out_min

-----------------------------------------------------------------------------
(* The motor section: a motor record m holds the four speed globals, the    *)
(* level of the four direction lines, the duty last written to the two      *)
(* enable lines, and currentDirection.                                      *)

MotorInit ==
    [currentLeftSpeed |-> 0, currentRightSpeed |-> 0,
     targetLeftSpeed |-> 0, targetRightSpeed |-> 0,
     IN1 |-> "LOW", IN2 |-> "LOW", IN3 |-> "LOW", IN4 |-> "LOW",
     ENA |-> 0, ENB |-> 0,
     currentDirection |-> "STOP"]

\* the four digitalWrite calls of one side
SideLines(enabled, forward) ==
    IF enabled
    THEN IF forward THEN <<"HIGH", "LOW">> ELSE <<"LOW", "HIGH">>
    ELSE <<"LOW", "LOW">>

setMotorDirection(m, leftEnabled, leftForward, rightEnabled, rightForward) ==
    [m EXCEPT !.IN1 = SideLines(leftEnabled, leftForward)[1],
              !.IN2 = SideLines(leftEnabled, leftForward)[2],
              !.IN3 = SideLines(rightEnabled, rightForward)[1],
              !.IN4 = SideLines(rightEnabled, rightForward)[2]]

\* one side of rampSpeed(): the new current speed
RampSkipClamp(current, target, rate) ==
    IF current < target THEN current + rate
    ELSE IF current > target THEN current - rate
    ELSE current

\* one side of rampSpeed() without the max() of the way down
RampSideNoFloor(current, target, rate) ==
    IF current < target THEN Min(current + rate, target)
    ELSE IF current > target THEN current - rate
    ELSE current

RampSide(current, target, rate) ==
    IF current < target THEN Min(current + rate, target)
    ELSE IF current > target THEN Max(current - rate, target)
    ELSE current

rampSpeedBy(m, rate) ==
    LET l == RampSide(m.currentLeftSpeed, m.targetLeftSpeed, rate)
        r == RampSide(m.currentRightSpeed, m.targetRightSpeed, rate)
    IN  [m EXCEPT !.currentLeftSpeed = l, !.currentRightSpeed = r,
                  !.ENA = l, !.ENB = r]

rampSpeed(m) == rampSpeedBy(m, RAMP_RATE)

StopKeepsSpeed(m) ==
    [m EXCEPT !.IN1 = "LOW", !.IN2 = "LOW", !.IN3 = "LOW", !.IN4 = "LOW",
              !.targetLeftSpeed = 0, !.targetRightSpeed = 0,
              !.currentDirection = "STOP"]

\* stopMotors() without its last line, currentDirection = STOP
stopMotorsKeepsDirection(m) ==
    [m EXCEPT !.IN1 = "LOW", !.IN2 = "LOW", !.IN3 = "LOW", !.IN4 = "LOW",
              !.ENA = 0, !.ENB = 0,
              !.currentLeftSpeed = 0, !.currentRightSpeed = 0,
              !.targetLeftSpeed = 0, !.targetRightSpeed = 0]

stopMotors(m) ==
    [m EXCEPT !.IN1 = "LOW", !.IN2 = "LOW", !.IN3 = "LOW", !.IN4 = "LOW",
              !.ENA = 0, !.ENB = 0,
              !.currentLeftSpeed = 0, !.currentRightSpeed = 0,
              !.targetLeftSpeed = 0, !.targetRightSpeed = 0,
              !.currentDirection = "STOP"]

\* setMotorTargetsPct() that turns by reversing the slower side
setMotorTargetsPctPivot(m, leftPct, rightPct) ==
    LET l == constrain(leftPct, 0, 100)
        r == constrain(rightPct, 0, 100)
        m1 == [m EXCEPT !.targetLeftSpeed = map(l, 0, 100, 0, MAX_SPEED),
                        !.targetRightSpeed = map(r, 0, 100, 0, MAX_SPEED)]
    IN  IF l = 0 /\ r = 0
        THEN stopMotors(m1)
        ELSE [setMotorDirection(m1, TRUE, l >= r, TRUE, r >= l)
                 EXCEPT !.currentDirection = "FORWARD"]

\* setMotorTargetsPct() with || for && in the full-stop test
setMotorTargetsPctStopOnEither(m, leftPct, rightPct) ==
    LET l == constrain(leftPct, 0, 100)
        r == constrain(rightPct, 0, 100)
        m1 == [m EXCEPT !.targetLeftSpeed = map(l, 0, 100, 0, MAX_SPEED),
                        !.targetRightSpeed = map(r, 0, 100, 0, MAX_SPEED)]
    IN  IF l = 0 \/ r = 0
        THEN stopMotors(m1)
        ELSE [setMotorDirection(m1, TRUE, TRUE, TRUE, TRUE)
                 EXCEPT !.currentDirection = "FORWARD"]

\* setMotorTargetsPct() starting each side's ramp again from 0
setMotorTargetsPctRestarts(m, leftPct, rightPct) ==
    LET l == constrain(leftPct, 0, 100)
        r == constrain(rightPct, 0, 100)
        m1 == [m EXCEPT !.targetLeftSpeed = map(l, 0, 100, 0, MAX_SPEED),
                        !.targetRightSpeed = map(r, 0, 100, 0, MAX_SPEED),
                        !.currentLeftSpeed = 0, !.currentRightSpeed = 0]
    IN  IF l = 0 /\ r = 0
        THEN stopMotors(m1)
        ELSE [setMotorDirection(m1, TRUE, TRUE, TRUE, TRUE)
                 EXCEPT !.currentDirection = "FORWARD"]

setMotorTargetsPct(m, leftPct, rightPct) ==
    LET l == constrain(leftPct, 0, 100)
        r == constrain(rightPct, 0, 100)
        m1 == [m EXCEPT !.targetLeftSpeed = map(l, 0, 100, 0, MAX_SPEED),
                        !.targetRightSpeed = map(r, 0, 100, 0, MAX_SPEED)]
    IN  IF l = 0 /\ r = 0
        THEN stopMotors(m1)
        ELSE [setMotorDirection(m1, TRUE, TRUE, TRUE, TRUE)
                 EXCEPT !.currentDirection = "FORWARD"]

driveStraight(m) == setMotorTargetsPct(m, DRIVE_MAX_PCT, DRIVE_MAX_PCT)

\* int inner = (DRIVE_MAX_PCT * TURN_SLOW_PCT) / 100, for a given TURN_SLOW_PCT
innerPct(turnSlowPct) == CDiv(DRIVE_MAX_PCT * turnSlowPct, 100)

driveLeftArcSwapped(m) ==
    LET inner == innerPct(TURN_SLOW_PCT)
    IN  setMotorTargetsPct(m, DRIVE_MAX_PCT, inner)

driveLeftArc(m) ==
    LET inner == innerPct(TURN_SLOW_PCT)
    IN  setMotorTargetsPct(m, inner, DRIVE_MAX_PCT)

\* driveRightArc() slowing the left side
driveRightArcSwapped(m) ==
    LET inner == innerPct(TURN_SLOW_PCT)
    IN  setMotorTargetsPct(m, inner, DRIVE_MAX_PCT)

driveRightArc(m) ==
    LET inner == innerPct(TURN_SLOW_PCT)
    IN  setMotorTargetsPct(m, DRIVE_MAX_PCT, inner)

-----------------------------------------------------------------------------
(* History read by the properties: the last operation, and per side the     *)
(* current speed when its target last changed (or a hard stop happened) and *)
(* the number of rampSpeed() calls since, counted up to RampCountCap; after  *)
(* a hard stop, pre is the motor record the stop found.  For a tick, state0  *)
(* and running0 are the phase and the run flag it started with.  ramps      *)
(* counts the rampSpeed() calls since the last hard stop, args are the      *)
(* arguments of the last setMotorTargetsPct() call, and samples lists the   *)
(* polls of the GO switch: the level read, the time since the previous      *)
(* poll, and the stable level and the run flag the poll left.               *)

RampCountCap == 53

HistInit ==
    [op |-> "setup", pre |-> MotorInit,
     startL |-> 0, nL |-> 0, startR |-> 0, nR |-> 0,
     state0 |-> "STATE_IDLE", running0 |-> FALSE, ramps |-> 0,
     args |-> <<0, 0>>, samples |-> <<>>, cases |-> {}]

\* history after an operation that turned motor record m into m2
Track(op, m, m2, stopped, ramped) ==
    LET newL == stopped \/ m2.targetLeftSpeed # m.targetLeftSpeed
        newR == stopped \/ m2.targetRightSpeed # m.targetRightSpeed
        inc(n) == IF ramped THEN Min(n + 1, RampCountCap) ELSE n
    IN  [hist EXCEPT !.op = op,
                     !.pre = IF stopped THEN m ELSE MotorInit,
                     !.startL = IF newL THEN m2.currentLeftSpeed ELSE @,
                     !.nL = IF newL THEN 0 ELSE inc(@),
                     !.startR = IF newR THEN m2.currentRightSpeed ELSE @,
                     !.nR = IF newR THEN 0 ELSE inc(@)]

-----------------------------------------------------------------------------
(* The state the integrated sketch's setup() leaves *)

SensorsInit == [leftDistCM |-> 99900000, rightDistCM |-> 99900000, frontDistCM |-> 99900000]
PingInit == [left |-> 0, right |-> 0, front |-> 0]
ButtonInit == [lastRawButton |-> "HIGH", stableButtonState |-> "HIGH", changeElapsed |-> 0]

SetupState ==
    /\ motor = stopMotors(MotorInit)
    /\ rampElapsed = 0
    /\ dist = SensorsInit
    /\ pingElapsed = PingInit
    /\ button = ButtonInit
    /\ state = "STATE_IDLE"
    /\ running = FALSE
    /\ pc = "sense"
    /\ hist = HistInit

-----------------------------------------------------------------------------
(* SpecActuator: the motor section of the integrated sketch under the calls *)
(* the compiled mode (MODE 2, loop_testLeftOnly) makes, in any order: the   *)
(* two drive wrappers it uses, the hard stop, and the ramp step.            *)

ActDriveStraight ==
    /\ motor' = driveStraight(motor)
    /\ hist' = Track("driveStraight", motor, motor', FALSE, FALSE)
    /\ UNCHANGED <<rampElapsed, dist, pingElapsed, button, state, running, pc, mode>>

ActDriveLeftArc ==
    /\ motor' = driveLeftArc(motor)
    /\ hist' = Track("driveLeftArc", motor, motor', FALSE, FALSE)
    /\ UNCHANGED <<rampElapsed, dist, pingElapsed, button, state, running, pc, mode>>

ActStopMotors ==
    /\ motor' = stopMotors(motor)
    /\ hist' = Track("stopMotors", motor, motor', TRUE, FALSE)
    /\ UNCHANGED <<rampElapsed, dist, pingElapsed, button, state, running, pc, mode>>

ActRampSpeed ==
    /\ motor' = rampSpeed(motor)
    /\ hist' = Track("rampSpeed", motor, motor', FALSE, TRUE)
    /\ UNCHANGED <<rampElapsed, dist, pingElapsed, button, state, running, pc, mode>>

ActuatorInit == SetupState /\ mode = 2

ActuatorNext ==
    \/ ActDriveStraight
    \/ ActDriveLeftArc
    \/ ActStopMotors
    \/ ActRampSpeed

SpecActuator == ActuatorInit /\ [][ActuatorNext]_vars

-----------------------------------------------------------------------------
(* The serial command sketch, motor_controller/motor_controller.ino *)

DtsFine == {0, 10, 50}

\* a timer after dt more milliseconds, saturated at cap
Elapse(e, dt, cap) == Min(e + dt, cap)

\* setMotorDirection() with the two sides' arguments exchanged
setMotorDirectionInoSwapped(m, leftForward, rightForward) ==
    [m EXCEPT !.IN1 = IF rightForward THEN "HIGH" ELSE "LOW",
              !.IN2 = IF rightForward THEN "LOW" ELSE "HIGH",
              !.IN3 = IF leftForward THEN "HIGH" ELSE "LOW",
              !.IN4 = IF leftForward THEN "LOW" ELSE "HIGH"]

setMotorDirectionIno(m, leftForward, rightForward) ==
    [m EXCEPT !.IN1 = IF leftForward THEN "HIGH" ELSE "LOW",
              !.IN2 = IF leftForward THEN "LOW" ELSE "HIGH",
              !.IN3 = IF rightForward THEN "HIGH" ELSE "LOW",
              !.IN4 = IF rightForward THEN "LOW" ELSE "HIGH"]

StopKeepsSpeedIno(m) ==
    [m EXCEPT !.IN1 = "LOW", !.IN2 = "LOW", !.IN3 = "LOW", !.IN4 = "LOW",
              !.targetLeftSpeed = 0, !.targetRightSpeed = 0,
              !.currentDirection = "STOP"]

\* a stop that brakes the lines and takes the speeds one ramp step down
StopByRampIno(m) ==
    LET l == Max(m.currentLeftSpeed - RAMP_RATE_INO, 0)
        r == Max(m.currentRightSpeed - RAMP_RATE_INO, 0)
    IN  [m EXCEPT !.IN1 = "LOW", !.IN2 = "LOW", !.IN3 = "LOW", !.IN4 = "LOW",
                  !.ENA = l, !.ENB = r,
                  !.currentLeftSpeed = l, !.currentRightSpeed = r,
                  !.targetLeftSpeed = 0, !.targetRightSpeed = 0,
                  !.currentDirection = "STOP"]

stopMotorsIno(m) ==
    [m EXCEPT !.IN1 = "LOW", !.IN2 = "LOW", !.IN3 = "LOW", !.IN4 = "LOW",
              !.ENA = 0, !.ENB = 0,
              !.currentLeftSpeed = 0, !.currentRightSpeed = 0,
              !.targetLeftSpeed = 0, !.targetRightSpeed = 0,
              !.currentDirection = "STOP"]

\* a command that also restarts the ramp from rest
GoFromRest(m, leftForward, rightForward, dir) ==
    [setMotorDirectionIno(m, leftForward, rightForward)
        EXCEPT !.currentLeftSpeed = 0,
               !.currentRightSpeed = 0,
               !.targetLeftSpeed = MAX_SPEED,
               !.targetRightSpeed = MAX_SPEED,
               !.currentDirection = dir]

\* the shared body giving a side that runs backward half the target
GoSlowsReversedSide(m, leftForward, rightForward, dir) ==
    [setMotorDirectionIno(m, leftForward, rightForward)
        EXCEPT !.targetLeftSpeed = IF leftForward THEN MAX_SPEED ELSE MAX_SPEED \div 2,
               !.targetRightSpeed = IF rightForward THEN MAX_SPEED ELSE MAX_SPEED \div 2,
               !.currentDirection = dir]

\* the body shared by the cases 'w', 'z', 'a', 'd'
Go(m, leftForward, rightForward, dir) ==
    [setMotorDirectionIno(m, leftForward, rightForward)
        EXCEPT !.targetLeftSpeed = MAX_SPEED,
               !.targetRightSpeed = MAX_SPEED,
               !.currentDirection = dir]

\* handleCommand() whose default case stops the motors
handleCommandDefaultStops(m, cmd) ==
    CASE cmd = "w" -> Go(m, TRUE, TRUE, "FORWARD")
      [] cmd = "z" -> Go(m, FALSE, FALSE, "BACKWARD")
      [] cmd = "a" -> Go(m, FALSE, TRUE, "LEFT_TURN")
      [] cmd = "d" -> Go(m, TRUE, FALSE, "RIGHT_TURN")
      [] OTHER -> stopMotorsIno(m)

handleCommand(m, cmd) ==
    CASE cmd = "w" -> Go(m, TRUE, TRUE, "FORWARD")
      [] cmd = "z" -> Go(m, FALSE, FALSE, "BACKWARD")
      [] cmd = "a" -> Go(m, FALSE, TRUE, "LEFT_TURN")
      [] cmd = "d" -> Go(m, TRUE, FALSE, "RIGHT_TURN")
      [] cmd = "s" -> stopMotorsIno(m)
      [] OTHER -> m

rampSpeedIno(m) == rampSpeedBy(m, RAMP_RATE_INO)

\* the characters the serial line delivers: the five commands and two others
Chars == {"w", "z", "a", "d", "s", "x", "\n"}

\* loop(), first half: a character is available and handled, or none is
SerialRead ==
    /\ pc = "serial"
    /\ \/ \E ch \in Chars :
            /\ motor' = handleCommand(motor, ch)
            /\ hist' = Track(ch, motor, motor', ch = "s", FALSE)
       \/ /\ motor' = motor
          /\ hist' = Track("none", motor, motor', FALSE, FALSE)
    /\ pc' = "ramp"
    /\ UNCHANGED <<rampElapsed, dist, pingElapsed, button, state, running, mode>>

\* loop(), second half: millis() is read and the ramp runs when it is due
SerialRamp ==
    /\ pc = "ramp"
    /\ \E dt \in DtsFine :
         LET e == Elapse(rampElapsed, dt, RAMP_DELAY_MS)
         IN  IF e >= RAMP_DELAY_MS
             THEN /\ rampElapsed' = 0
                  /\ motor' = rampSpeedIno(motor)
                  /\ hist' = Track("rampSpeed", motor, motor', FALSE, TRUE)
             ELSE /\ rampElapsed' = e
                  /\ motor' = motor
                  /\ hist' = Track("noRamp", motor, motor', FALSE, FALSE)
    /\ pc' = "serial"
    /\ UNCHANGED <<dist, pingElapsed, button, state, running, mode>>

SerialInit ==
    /\ motor = stopMotorsIno(MotorInit)
    /\ rampElapsed = 0
    /\ dist = SensorsInit
    /\ pingElapsed = PingInit
    /\ button = ButtonInit
    /\ state = "STATE_IDLE"
    /\ running = FALSE
    /\ pc = "serial"
    /\ mode = 0
    /\ hist = HistInit

SerialNext == SerialRead \/ SerialRamp

SpecSerial == SerialInit /\ [][SerialNext]_vars

-----------------------------------------------------------------------------
(* The integrated sketch: sensors, GO switch, FSM *)

\* double readUltrasonicCM(trigPin, echoPin), as a function of the echo
\* duration pulseIn() returns (0: no echo within the timeout)
readUltrasonicCM(dur) == IF dur = 0 THEN 99900000 ELSE dur * 1715

calFarOpen ==
    [L_detect_min |-> 1300000, L_detect_max |-> 1500000,
     R_inner_close |-> 1200000,
     R_outer_far_min |-> 2000000, R_outer_far_max |-> 99900000,
     R_outer_turn_min |-> 1200000, R_outer_turn_max |-> 1400000,
     F_final_detect |-> 2000000, F_stop_dist |-> 700000]

\* the calibration defaults setup() stores
cal ==
    [L_detect_min |-> 1300000, L_detect_max |-> 1500000,
     R_inner_close |-> 1200000,
     R_outer_far_min |-> 2000000, R_outer_far_max |-> 3000000,
     R_outer_turn_min |-> 1200000, R_outer_turn_max |-> 1400000,
     F_final_detect |-> 2000000, F_stop_dist |-> 700000]

\* updateDistanceReadings(): p is pingElapsed as of this millis() read
updateDistanceReadings(d, p, durL, durR, durF) ==
    LET dueL == p.left >= PING_INTERVAL
        dueR == p.right >= PING_INTERVAL
        dueF == p.front >= PING_INTERVAL
    IN  [dist |->
            [leftDistCM |-> IF dueL THEN readUltrasonicCM(durL) ELSE d.leftDistCM,
             rightDistCM |-> IF dueR THEN readUltrasonicCM(durR) ELSE d.rightDistCM,
             frontDistCM |-> IF dueF THEN readUltrasonicCM(durF) ELSE d.frontDistCM],
         ping |->
            [left |-> IF dueL THEN 0 ELSE p.left,
             right |-> IF dueR THEN 0 ELSE p.right,
             front |-> IF dueF THEN 0 ELSE p.front]]

inRangeNoUpper(value, minVal, maxVal) == value >= minVal

\* inRange() with < for <=
inRangeExclusive(value, minVal, maxVal) == value > minVal /\ value < maxVal

inRange(value, minVal, maxVal) == value >= minVal /\ value <= maxVal

\* A controller record c holds what a tick reads and writes:
\* [motor, button, state, running].

\* the time since lastChangeTime after "if (raw != lastRawButton)
\* lastChangeTime = now", dt after the previous millis() read
ElapsedNoRestart(raw, lastRaw, elapsed, dt) ==
    Elapse(elapsed, dt, debounceMs + 1)

ChangeElapsed(raw, lastRaw, elapsed, dt) ==
    IF raw # lastRaw THEN 0 ELSE Elapse(elapsed, dt, debounceMs + 1)

\* the test that commits a new stable level
CommitAtWindow(e, raw, stable) == e >= debounceMs /\ raw # stable

Commit(e, raw, stable) == e > debounceMs /\ raw # stable

\* updateGoSwitch() without the test "stableButtonState == LOW": every
\* committed edge toggles
updateGoSwitchAnyEdge(c, raw, dt) ==
    LET e == ChangeElapsed(raw, c.button.lastRawButton, c.button.changeElapsed, dt)
        commit == Commit(e, raw, c.button.stableButtonState)
        b == [lastRawButton |-> raw,
              stableButtonState |-> IF commit THEN raw ELSE c.button.stableButtonState,
              changeElapsed |-> e]
    IN  IF commit
        THEN IF ~c.running
             THEN [c EXCEPT !.button = b, !.running = TRUE, !.state = "STATE_PHASE1"]
             ELSE [c EXCEPT !.button = b, !.running = FALSE, !.state = "STATE_IDLE",
                            !.motor = stopMotors(c.motor)]
        ELSE [c EXCEPT !.button = b]

\* updateGoSwitch() without "state = STATE_PHASE1" on the run-enable
updateGoSwitchKeepsPhase(c, raw, dt) ==
    LET e == ChangeElapsed(raw, c.button.lastRawButton, c.button.changeElapsed, dt)
        commit == Commit(e, raw, c.button.stableButtonState)
        b == [lastRawButton |-> raw,
              stableButtonState |-> IF commit THEN raw ELSE c.button.stableButtonState,
              changeElapsed |-> e]
    IN  IF commit /\ raw = "LOW"
        THEN IF ~c.running
             THEN [c EXCEPT !.button = b, !.running = TRUE]
             ELSE [c EXCEPT !.button = b, !.running = FALSE, !.state = "STATE_IDLE",
                            !.motor = stopMotors(c.motor)]
        ELSE [c EXCEPT !.button = b]

\* updateGoSwitch(): raw is digitalRead(PIN_GO_SWITCH), dt the time since the
\* previous millis() read
updateGoSwitch(c, raw, dt) ==
    LET e == ChangeElapsed(raw, c.button.lastRawButton, c.button.changeElapsed, dt)
        commit == Commit(e, raw, c.button.stableButtonState)
        b == [lastRawButton |-> raw,
              stableButtonState |-> IF commit THEN raw ELSE c.button.stableButtonState,
              changeElapsed |-> e]
    IN  IF commit /\ raw = "LOW"
        THEN IF ~c.running
             THEN [c EXCEPT !.button = b, !.running = TRUE, !.state = "STATE_PHASE1"]
             ELSE [c EXCEPT !.button = b, !.running = FALSE, !.state = "STATE_IDLE",
                            !.motor = stopMotors(c.motor)]
        ELSE [c EXCEPT !.button = b]

\* the switch of loop_full(), entered with running true
FullSwitch(c, d) ==
    LET L == d.leftDistCM
        R == d.rightDistCM
        F == d.frontDistCM
    IN  CASE c.state = "STATE_IDLE" ->
               [c EXCEPT !.motor = stopMotors(c.motor)]
          [] c.state = "STATE_PHASE1" ->
               [c EXCEPT !.motor = driveStraight(c.motor),
                         !.state = IF inRange(L, cal.L_detect_min, cal.L_detect_max)
                                   THEN "STATE_PHASE2" ELSE @]
          [] c.state = "STATE_PHASE2" ->
               [c EXCEPT !.motor = driveLeftArc(c.motor),
                         !.state = IF R <= cal.R_inner_close
                                   THEN "STATE_PHASE3" ELSE @]
          [] c.state = "STATE_PHASE3" ->
               [c EXCEPT !.motor = driveStraight(c.motor),
                         !.state = IF inRange(R, cal.R_outer_far_min, cal.R_outer_far_max)
                                   THEN "STATE_PHASE4" ELSE @]
          [] c.state = "STATE_PHASE4" ->
               [c EXCEPT !.motor = driveStraight(c.motor),
                         !.state = IF inRange(R, cal.R_outer_turn_min, cal.R_outer_turn_max)
                                   THEN "STATE_PHASE5" ELSE @]
          [] c.state = "STATE_PHASE5" ->
               [c EXCEPT !.motor = driveRightArc(c.motor),
                         !.state = IF F <= cal.F_final_detect
                                   THEN "STATE_PHASE6" ELSE @]
          [] c.state = "STATE_PHASE6" ->
               IF F <= cal.F_stop_dist
               THEN [c EXCEPT !.motor = stopMotors(driveStraight(c.motor)),
                              !.state = "STATE_DONE"]
               ELSE [c EXCEPT !.motor = driveStraight(c.motor)]
          [] c.state = "STATE_DONE" ->
               [c EXCEPT !.motor = stopMotors(c.motor)]
          [] OTHER ->
               [c EXCEPT !.motor = stopMotors(c.motor), !.state = "STATE_IDLE"]

\* the guard that opens loop_full() and loop_testLeftOnly()
NotRunning(c) == [c EXCEPT !.motor = stopMotors(c.motor), !.state = "STATE_IDLE"]

\* loop_full() with the break of case STATE_PHASE1 missing
loop_fullFallthrough(c, raw, dt, d) ==
    LET c1 == updateGoSwitch(c, raw, dt)
    IN  IF ~c1.running THEN NotRunning(c1)
        ELSE IF c1.state = "STATE_PHASE1"
        THEN [c1 EXCEPT !.motor = driveLeftArc(driveStraight(c1.motor)),
                        !.state = IF d.rightDistCM <= cal.R_inner_close
                                  THEN "STATE_PHASE3"
                                  ELSE IF inRange(d.leftDistCM, cal.L_detect_min,
                                                  cal.L_detect_max)
                                  THEN "STATE_PHASE2" ELSE @]
        ELSE FullSwitch(c1, d)

\* loop_full() whose STATE_DONE case starts over once the front is clear
loop_fullDoneResets(c, raw, dt, d) ==
    LET c1 == updateGoSwitch(c, raw, dt)
    IN  IF ~c1.running THEN NotRunning(c1)
        ELSE IF c1.state = "STATE_DONE" /\ d.frontDistCM > cal.F_final_detect
        THEN [c1 EXCEPT !.motor = stopMotors(c1.motor), !.state = "STATE_PHASE1"]
        ELSE FullSwitch(c1, d)

\* loop_full() whose STATE_PHASE5 case already stops at the stop distance
loop_fullEarlyDone(c, raw, dt, d) ==
    LET c1 == updateGoSwitch(c, raw, dt)
    IN  IF ~c1.running THEN NotRunning(c1)
        ELSE IF c1.state = "STATE_PHASE5" /\ d.frontDistCM <= cal.F_stop_dist
        THEN [c1 EXCEPT !.motor = stopMotors(driveRightArc(c1.motor)),
                        !.state = "STATE_DONE"]
        ELSE FullSwitch(c1, d)

\* loop_full() whose STATE_DONE case puts the phase back to STATE_IDLE
loop_fullDoneIdles(c, raw, dt, d) ==
    LET c1 == updateGoSwitch(c, raw, dt)
    IN  IF ~c1.running THEN NotRunning(c1)
        ELSE IF c1.state = "STATE_DONE"
        THEN [c1 EXCEPT !.motor = stopMotors(c1.motor), !.state = "STATE_IDLE"]
        ELSE FullSwitch(c1, d)

\* loop_full() whose STATE_PHASE3 case goes on to STATE_PHASE5
loop_fullSkipsPhase4(c, raw, dt, d) ==
    LET c1 == updateGoSwitch(c, raw, dt)
    IN  IF ~c1.running THEN NotRunning(c1)
        ELSE IF c1.state = "STATE_PHASE3"
                 /\ inRange(d.rightDistCM, cal.R_outer_far_min, cal.R_outer_far_max)
        THEN [c1 EXCEPT !.motor = driveStraight(c1.motor), !.state = "STATE_PHASE5"]
        ELSE FullSwitch(c1, d)

loop_full(c, raw, dt, d) ==
    LET c1 == updateGoSwitch(c, raw, dt)
    IN  IF ~c1.running THEN NotRunning(c1) ELSE FullSwitch(c1, d)

\* the switch of loop_testLeftOnly(), entered with running true
TestSwitch(c, d) ==
    LET L == d.leftDistCM
        R == d.rightDistCM
    IN  CASE c.state = "STATE_IDLE" ->
               [c EXCEPT !.motor = stopMotors(c.motor)]
          [] c.state = "STATE_PHASE1" ->
               [c EXCEPT !.motor = driveStraight(c.motor),
                         !.state = IF inRange(L, cal.L_detect_min, cal.L_detect_max)
                                   THEN "STATE_PHASE2" ELSE @]
          [] c.state = "STATE_PHASE2" ->
               [c EXCEPT !.motor = driveLeftArc(c.motor),
                         !.state =
                            LET s1 == IF L > cal.L_detect_max THEN "STATE_PHASE1" ELSE @
                            IN  IF R <= cal.R_inner_close THEN "STATE_PHASE1" ELSE s1]
          [] OTHER ->
               [c EXCEPT !.state = "STATE_PHASE1"]

\* loop_testLeftOnly() whose STATE_PHASE2 case lacks the test of R
loop_testLeftOnlyNoRightEdge(c, raw, dt, d) ==
    LET c1 == updateGoSwitch(c, raw, dt)
    IN  IF ~c1.running THEN NotRunning(c1)
        ELSE IF c1.state = "STATE_PHASE2"
        THEN [c1 EXCEPT !.motor = driveLeftArc(c1.motor),
                        !.state = IF d.leftDistCM > cal.L_detect_max
                                  THEN "STATE_PHASE1" ELSE @]
        ELSE TestSwitch(c1, d)

\* loop_testLeftOnly() running the switch statement of loop_full()
loop_testLeftOnlyFullSwitch(c, raw, dt, d) ==
    LET c1 == updateGoSwitch(c, raw, dt)
    IN  IF ~c1.running THEN NotRunning(c1) ELSE FullSwitch(c1, d)

loop_testLeftOnly(c, raw, dt, d) ==
    LET c1 == updateGoSwitch(c, raw, dt)
    IN  IF ~c1.running THEN NotRunning(c1) ELSE TestSwitch(c1, d)

-----------------------------------------------------------------------------
(* Spec: loop() of the integrated sketch, one action per step.  Each step   *)
(* reads millis() once; every timer advances by the time dt that passed     *)
(* since the previous read.                                                 *)

Dts == {0, 60}

\* echo durations (microseconds) a ping may return, per channel: no echo, and
\* one duration inside each band the calibration distinguishes
DursLeft == {0, 700, 816, 1167}
DursRight == {0, 583, 758, 1458}
DursFront == {0, 350, 875}

Levels == {"HIGH", "LOW"}

\* rampSpeed() calls explored after a hard stop
MaxRamps == 2

Ctl == [motor |-> motor, button |-> button, state |-> state, running |-> running]

\* step 1: updateDistanceReadings()
Sense ==
    /\ pc = "sense"
    /\ \E dt \in Dts :
         LET p == [left |-> Elapse(pingElapsed.left, dt, PING_INTERVAL),
                   right |-> Elapse(pingElapsed.right, dt, PING_INTERVAL),
                   front |-> Elapse(pingElapsed.front, dt, PING_INTERVAL)]
             due == p.left >= PING_INTERVAL \/ p.right >= PING_INTERVAL
                       \/ p.front >= PING_INTERVAL
         IN  /\ \E durL \in (IF due THEN DursLeft ELSE {0}),
                   durR \in (IF due THEN DursRight ELSE {0}),
                   durF \in (IF due THEN DursFront ELSE {0}) :
                  LET u == updateDistanceReadings(dist, p, durL, durR, durF)
                  IN  /\ dist' = u.dist
                      /\ pingElapsed' = u.ping
             /\ rampElapsed' = Elapse(rampElapsed, dt, RAMP_DELAY_MS)
             /\ button' = [button EXCEPT
                              !.changeElapsed = Elapse(@, dt, debounceMs + 1)]
    /\ hist' = [hist EXCEPT !.op = "updateDistanceReadings", !.pre = MotorInit]
    /\ pc' = "ramp"
    /\ UNCHANGED <<motor, state, running, mode>>

\* step 2: rampSpeed() when RAMP_DELAY_MS have passed
Ramp ==
    /\ pc = "ramp"
    /\ \E dt \in Dts :
         LET e == Elapse(rampElapsed, dt, RAMP_DELAY_MS)
         IN  /\ IF e >= RAMP_DELAY_MS
                THEN /\ hist.ramps < MaxRamps
                     /\ rampElapsed' = 0
                     /\ motor' = rampSpeed(motor)
                     /\ hist' = [hist EXCEPT !.op = "rampSpeed", !.pre = MotorInit,
                                              !.ramps = @ + 1]
                ELSE /\ rampElapsed' = e
                     /\ motor' = motor
                     /\ hist' = [hist EXCEPT !.op = "noRamp", !.pre = MotorInit]
             /\ pingElapsed' =
                   [left |-> Elapse(pingElapsed.left, dt, PING_INTERVAL),
                    right |-> Elapse(pingElapsed.right, dt, PING_INTERVAL),
                    front |-> Elapse(pingElapsed.front, dt, PING_INTERVAL)]
             /\ button' = [button EXCEPT
                              !.changeElapsed = Elapse(@, dt, debounceMs + 1)]
    /\ pc' = "fsm"
    /\ UNCHANGED <<dist, state, running, mode>>

\* history after a tick that turned controller record c into c2
TickHist(op, c, c2) ==
    LET halted == c2.motor.targetLeftSpeed = 0 /\ c2.motor.targetRightSpeed = 0
    IN  [hist EXCEPT !.op = op,
                     !.pre = IF halted THEN c.motor ELSE MotorInit,
                     !.state0 = c.state, !.running0 = c.running,
                     !.ramps = IF halted THEN 0 ELSE @]

\* step 3 in a loop() that goes on with step 2, not with step 1
TickSkipsSense(op, c2, dt) ==
    /\ motor' = c2.motor
    /\ button' = c2.button
    /\ state' = c2.state
    /\ running' = c2.running
    /\ hist' = TickHist(op, Ctl, c2)
    /\ rampElapsed' = Elapse(rampElapsed, dt, RAMP_DELAY_MS)
    /\ pingElapsed' =
          [left |-> Elapse(pingElapsed.left, dt, PING_INTERVAL),
           right |-> Elapse(pingElapsed.right, dt, PING_INTERVAL),
           front |-> Elapse(pingElapsed.front, dt, PING_INTERVAL)]
    /\ pc' = "ramp"
    /\ UNCHANGED <<dist, mode>>

\* step 3: the FSM selected by MODE
Tick(op, c2, dt) ==
    /\ motor' = c2.motor
    /\ button' = c2.button
    /\ state' = c2.state
    /\ running' = c2.running
    /\ hist' = TickHist(op, Ctl, c2)
    /\ rampElapsed' = Elapse(rampElapsed, dt, RAMP_DELAY_MS)
    /\ pingElapsed' =
          [left |-> Elapse(pingElapsed.left, dt, PING_INTERVAL),
           right |-> Elapse(pingElapsed.right, dt, PING_INTERVAL),
           front |-> Elapse(pingElapsed.front, dt, PING_INTERVAL)]
    /\ pc' = "sense"
    /\ UNCHANGED <<dist, mode>>

LoopFull ==
    /\ pc = "fsm"
    /\ mode = 1
    /\ \E raw \in Levels, dt \in Dts :
         Tick("loop_full", loop_full(Ctl, raw, dt, dist), dt)

LoopTestLeftOnly ==
    /\ pc = "fsm"
    /\ mode = 2
    /\ \E raw \in Levels, dt \in Dts :
         Tick("loop_testLeftOnly", loop_testLeftOnly(Ctl, raw, dt, dist), dt)

Init == SetupState /\ mode \in {1, 2}

Next == Sense \/ Ramp \/ LoopFull \/ LoopTestLeftOnly

Spec == Init /\ [][Next]_vars

-----------------------------------------------------------------------------
(* SpecProgress: loop() of the integrated sketch compiled with MODE 1,      *)
(* running forever (loop() is called again as soon as it returns).          *)
(* hist.cases holds the phases whose case of the switch statement has been  *)
(* run since the run was enabled; a loop_full() call runs one case, or none *)
(* when it returns early.                                                   *)

LoopFullTraced ==
    /\ pc = "fsm"
    /\ mode = 1
    /\ \E raw \in Levels, dt \in Dts :
         LET c1 == updateGoSwitch(Ctl, raw, dt)
             c2 == loop_full(Ctl, raw, dt, dist)
         IN  /\ motor' = c2.motor
             /\ button' = c2.button
             /\ state' = c2.state
             /\ running' = c2.running
             /\ hist' = [TickHist("loop_full", Ctl, c2) EXCEPT
                   !.cases = IF ~c2.running THEN {}
                             ELSE (IF running THEN @ ELSE {}) \cup {c1.state}]
             /\ rampElapsed' = Elapse(rampElapsed, dt, RAMP_DELAY_MS)
             /\ pingElapsed' =
                   [left |-> Elapse(pingElapsed.left, dt, PING_INTERVAL),
                    right |-> Elapse(pingElapsed.right, dt, PING_INTERVAL),
                    front |-> Elapse(pingElapsed.front, dt, PING_INTERVAL)]
    /\ pc' = "sense"
    /\ UNCHANGED <<dist, mode>>

ProgressInit == SetupState /\ mode = 1

ProgressNext == Sense \/ Ramp \/ LoopFullTraced

SpecProgress == ProgressInit /\ [][ProgressNext]_vars /\ WF_vars(ProgressNext)

-----------------------------------------------------------------------------
(* SpecDebounce: updateGoSwitch() polled with any levels at any of the      *)
(* intervals DtsPoll, MaxPolls times.                                       *)

DtsPoll == {20, 30, 51}

MaxPolls == 6

Poll ==
    /\ Len(hist.samples) < MaxPolls
    /\ \E raw \in Levels, dt \in DtsPoll :
         LET c2 == updateGoSwitch(Ctl, raw, dt)
         IN  /\ motor' = c2.motor
             /\ button' = c2.button
             /\ state' = c2.state
             /\ running' = c2.running
             /\ hist' = [hist EXCEPT
                   !.op = "updateGoSwitch",
                   !.samples = Append(@, [raw |-> raw, dt |-> dt,
                                          stable |-> c2.button.stableButtonState,
                                          running |-> c2.running])]
    /\ UNCHANGED <<rampElapsed, dist, pingElapsed, pc, mode>>

DebounceInit == SetupState /\ mode = 2

SpecDebounce == DebounceInit /\ [][Poll]_vars

-----------------------------------------------------------------------------
(* SpecPct: setMotorTargetsPct() called with any pair of Pcts, between ramp *)
(* steps.                                                                   *)

Pcts == {-32768, -1, 0, 1, 50, 100, 101, 32767}

PctCall ==
    /\ \E leftPct \in Pcts, rightPct \in Pcts :
         /\ motor' = setMotorTargetsPct(motor, leftPct, rightPct)
         /\ hist' = [hist EXCEPT
               !.op = "setMotorTargetsPct",
               !.pre = motor,
               !.args = <<leftPct, rightPct>>,
               !.ramps = IF motor'.targetLeftSpeed = 0 /\ motor'.targetRightSpeed = 0
                         THEN 0 ELSE @]
    /\ UNCHANGED <<rampElapsed, dist, pingElapsed, button, state, running, pc, mode>>

PctRamp ==
    /\ hist.ramps < MaxRamps
    /\ motor' = rampSpeed(motor)
    /\ hist' = [hist EXCEPT !.op = "rampSpeed", !.pre = MotorInit, !.ramps = @ + 1]
    /\ UNCHANGED <<rampElapsed, dist, pingElapsed, button, state, running, pc, mode>>

PctInit == SetupState /\ mode = 2

PctNext == PctCall \/ PctRamp

SpecPct == PctInit /\ [][PctNext]_vars

-----------------------------------------------------------------------------
(* The button-input sketch printed in WIRING_GUIDE.md, lines 555-780: four  *)
(* active-LOW direction inputs, no sensors, no FSM.  One action is one pass *)
(* of loop().                                                               *)

TURN_SPEED_RATIO == 2
RAMP_RATE_BTN == 5

setMotorDirectionBtn(m, leftEnabled, leftForward, rightEnabled, rightForward) ==
    [m EXCEPT !.IN1 = SideLines(leftEnabled, leftForward)[1],
              !.IN2 = SideLines(leftEnabled, leftForward)[2],
              !.IN3 = SideLines(rightEnabled, rightForward)[1],
              !.IN4 = SideLines(rightEnabled, rightForward)[2]]

rampSpeedBtn(m) == rampSpeedBy(m, RAMP_RATE_BTN)

\* stopMotors() of this sketch leaves currentDirection alone
stopMotorsBtn(m) ==
    [m EXCEPT !.IN1 = "LOW", !.IN2 = "LOW", !.IN3 = "LOW", !.IN4 = "LOW",
              !.ENA = 0, !.ENB = 0,
              !.currentLeftSpeed = 0, !.currentRightSpeed = 0,
              !.targetLeftSpeed = 0, !.targetRightSpeed = 0]

\* setDirection() whose STOP case calls stopMotors()
setDirectionStopBrakes(m, dir) ==
    CASE dir = "FORWARD" ->
           [setMotorDirectionBtn(m, TRUE, TRUE, TRUE, TRUE)
               EXCEPT !.targetLeftSpeed = MAX_SPEED,
                      !.targetRightSpeed = MAX_SPEED]
      [] dir = "BACKWARD" ->
           [setMotorDirectionBtn(m, TRUE, FALSE, TRUE, FALSE)
               EXCEPT !.targetLeftSpeed = MAX_SPEED,
                      !.targetRightSpeed = MAX_SPEED]
      [] dir = "LEFT_TURN" ->
           [setMotorDirectionBtn(m, TRUE, FALSE, TRUE, TRUE)
               EXCEPT !.targetLeftSpeed = CDiv(MAX_SPEED, TURN_SPEED_RATIO),
                      !.targetRightSpeed = MAX_SPEED]
      [] dir = "RIGHT_TURN" ->
           [setMotorDirectionBtn(m, TRUE, TRUE, TRUE, FALSE)
               EXCEPT !.targetLeftSpeed = MAX_SPEED,
                      !.targetRightSpeed = CDiv(MAX_SPEED, TURN_SPEED_RATIO)]
      [] OTHER -> stopMotorsBtn(m)

setDirection(m, dir) ==
    CASE dir = "FORWARD" ->
           [setMotorDirectionBtn(m, TRUE, TRUE, TRUE, TRUE)
               EXCEPT !.targetLeftSpeed = MAX_SPEED,
                      !.targetRightSpeed = MAX_SPEED]
      [] dir = "BACKWARD" ->
           [setMotorDirectionBtn(m, TRUE, FALSE, TRUE, FALSE)
               EXCEPT !.targetLeftSpeed = MAX_SPEED,
                      !.targetRightSpeed = MAX_SPEED]
      [] dir = "LEFT_TURN" ->
           [setMotorDirectionBtn(m, TRUE, FALSE, TRUE, TRUE)
               EXCEPT !.targetLeftSpeed = CDiv(MAX_SPEED, TURN_SPEED_RATIO),
                      !.targetRightSpeed = MAX_SPEED]
      [] dir = "RIGHT_TURN" ->
           [setMotorDirectionBtn(m, TRUE, TRUE, TRUE, FALSE)
               EXCEPT !.targetLeftSpeed = MAX_SPEED,
                      !.targetRightSpeed = CDiv(MAX_SPEED, TURN_SPEED_RATIO)]
      [] OTHER ->
           [m EXCEPT !.targetLeftSpeed = 0, !.targetRightSpeed = 0]

\* the direction loop() derives from the four inputs
desiredDirection(forwardPressed, backwardPressed, leftPressed, rightPressed) ==
    IF forwardPressed /\ ~backwardPressed THEN "FORWARD"
    ELSE IF backwardPressed /\ ~forwardPressed THEN "BACKWARD"
    ELSE IF leftPressed /\ ~rightPressed THEN "LEFT_TURN"
    ELSE IF rightPressed /\ ~leftPressed THEN "RIGHT_TURN"
    ELSE "STOP"

\* one pass of loop(): the inputs are read, the direction is set when it
\* changed, and the ramp runs
loopBtn(m, forwardPressed, backwardPressed, leftPressed, rightPressed) ==
    LET dir == desiredDirection(forwardPressed, backwardPressed,
                                leftPressed, rightPressed)
        m1 == IF dir # m.currentDirection
              THEN [setDirection(m, dir) EXCEPT !.currentDirection = dir]
              ELSE m
    IN  rampSpeedBtn(m1)

ButtonLoop ==
    /\ pc = "loop"
    /\ \E forwardPressed \in BOOLEAN, backwardPressed \in BOOLEAN,
          leftPressed \in BOOLEAN, rightPressed \in BOOLEAN :
         LET dir == desiredDirection(forwardPressed, backwardPressed,
                                     leftPressed, rightPressed)
         IN  /\ motor' = loopBtn(motor, forwardPressed, backwardPressed,
                                 leftPressed, rightPressed)
             /\ hist' = [hist EXCEPT
                   !.op = IF dir # motor.currentDirection
                          THEN "setDirection" ELSE "rampSpeed"]
    /\ UNCHANGED <<rampElapsed, dist, pingElapsed, button, state, running, pc, mode>>

ButtonSketchInit ==
    /\ motor = stopMotorsBtn(MotorInit)
    /\ rampElapsed = 0
    /\ dist = SensorsInit
    /\ pingElapsed = PingInit
    /\ button = ButtonInit
    /\ state = "STATE_IDLE"
    /\ running = FALSE
    /\ pc = "loop"
    /\ mode = 3
    /\ hist = HistInit

SpecButton == ButtonSketchInit /\ [][ButtonLoop]_vars

-----------------------------------------------------------------------------
(* SpecSketches: the three sketches side by side; mode tells which one      *)
(* runs (0: serial, 1 and 2: integrated, 3: button).  Spec follows the      *)
(* integrated sketch's ramp for MaxRamps steps after a stop; beside it, pc  *)
(* = "calls" runs the integrated sketch's motor section under any sequence  *)
(* of the calls loop() makes into it, with ramps of any length.             *)

\* the integrated sketch after setup(), about to make any sequence of the
\* calls of ActuatorNext
CallsInit ==
    /\ motor = stopMotors(MotorInit)
    /\ rampElapsed = 0
    /\ dist = SensorsInit
    /\ pingElapsed = PingInit
    /\ button = ButtonInit
    /\ state = "STATE_IDLE"
    /\ running = FALSE
    /\ pc = "calls"
    /\ mode = 2
    /\ hist = HistInit

SketchesInit == Init \/ SerialInit \/ ButtonSketchInit \/ CallsInit

SketchesNext ==
    \/ mode \in {1, 2} /\ pc # "calls" /\ Next
    \/ mode = 0 /\ SerialNext
    \/ mode = 3 /\ ButtonLoop
    \/ pc = "calls" /\ ActuatorNext

SpecSketches == SketchesInit /\ [][SketchesNext]_vars

-----------------------------------------------------------------------------
(* SpecThresholds: loop_full() applied once, while running and with the    *)
(* switch released, in any phase from Phase1 to Phase6, to distances on and *)
(* next to every threshold of the calibration (the smallest step of the     *)
(* model's distances below and above it).                                   *)

Phases == {"STATE_PHASE1", "STATE_PHASE2", "STATE_PHASE3",
           "STATE_PHASE4", "STATE_PHASE5", "STATE_PHASE6"}

\* a threshold, and the values next to it
Around(v) == {v - 1, v, v + 1}

LeftValues == Around(cal.L_detect_min) \cup Around(cal.L_detect_max)
RightValues ==
    Around(cal.R_inner_close) \cup Around(cal.R_outer_turn_max)
        \cup Around(cal.R_outer_far_min) \cup Around(cal.R_outer_far_max)
FrontValues == Around(cal.F_stop_dist) \cup Around(cal.F_final_detect)

ThresholdsInit ==
    /\ motor = stopMotors(MotorInit)
    /\ rampElapsed = 0
    /\ dist \in [leftDistCM : LeftValues, rightDistCM : RightValues,
                 frontDistCM : FrontValues]
    /\ pingElapsed = PingInit
    /\ button = ButtonInit
    /\ state \in Phases
    /\ running = TRUE
    /\ pc = "thresholds"
    /\ mode = 1
    /\ hist = HistInit

ThresholdTick ==
    /\ pc = "thresholds"
    /\ LET c2 == loop_full(Ctl, "HIGH", 0, dist)
       IN  /\ motor' = c2.motor
           /\ button' = c2.button
           /\ state' = c2.state
           /\ running' = c2.running
           /\ hist' = [hist EXCEPT !.op = "loop_full", !.state0 = state,
                                    !.running0 = running]
    /\ pc' = "applied"
    /\ UNCHANGED <<rampElapsed, pingElapsed, dist, mode>>

SpecThresholds == ThresholdsInit /\ [][ThresholdTick]_vars

-----------------------------------------------------------------------------
(* Properties *)

CeilDiv(a, b) == (a + b - 1) \div b

\* one side's ramp, n calls after it started at speed start toward target
RampLaw(current, target, start, n, rate) ==
    LET need == CeilDiv(Abs(target - start), rate)
    IN  /\ n >= need => current = target
        /\ n < need => current # target
        /\ Min(start, target) <= current
        /\ current <= Max(start, target)

(* C1: ramp convergence. On each side, n rampSpeed() calls after the target *)
(* last changed (or a hard stop happened) with the current speed at start,  *)
(* the current speed equals the target exactly when                         *)
(* n >= ceil(|target - start| / RAMP_RATE), and it always lies between      *)
(* start and target.                                                        *)
C1_RampConvergence ==
    /\ RampLaw(motor.currentLeftSpeed, motor.targetLeftSpeed,
               hist.startL, hist.nL, RAMP_RATE)
    /\ RampLaw(motor.currentRightSpeed, motor.targetRightSpeed,
               hist.startR, hist.nR, RAMP_RATE)

\* the left side came down from 255 to 127 in exactly ceil(128/5) = 26 calls
C1_Witness ==
    /\ hist.op = "rampSpeed"
    /\ hist.startL = 255
    /\ motor.targetLeftSpeed = 127
    /\ hist.nL = 26
    /\ motor.currentLeftSpeed = 127

(* C2: hard-stop immediacy (serial sketch). Right after the stop command    *)
(* both sides have current = target = 0 and duty 0 on the enable lines; and *)
(* as long as both targets are 0 (until a command sets a nonzero target),   *)
(* the current speeds and the duties written stay 0, ramp ticks included.   *)
C2_HardStop ==
    /\ hist.op = "s" =>
          /\ motor.currentLeftSpeed = 0 /\ motor.currentRightSpeed = 0
          /\ motor.targetLeftSpeed = 0 /\ motor.targetRightSpeed = 0
          /\ motor.ENA = 0 /\ motor.ENB = 0
    /\ (motor.targetLeftSpeed = 0 /\ motor.targetRightSpeed = 0) =>
          /\ motor.currentLeftSpeed = 0 /\ motor.currentRightSpeed = 0
          /\ motor.ENA = 0 /\ motor.ENB = 0

\* a stop that found the robot mid-ramp with the left side reversed
C2_Witness ==
    /\ hist.op = "s"
    /\ hist.pre.currentLeftSpeed > 0
    /\ hist.pre.currentLeftSpeed < hist.pre.targetLeftSpeed
    /\ hist.pre.IN2 = "HIGH"
    /\ motor.ENA = 0
    /\ motor.currentLeftSpeed = 0

-----------------------------------------------------------------------------
(* The GO switch polls of hist.samples *)

\* the first poll of the run of equal levels that poll k belongs to
RunStart(seq, k) ==
    CHOOSE s \in 1..k :
        /\ \A j \in s..k : seq[j].raw = seq[k].raw
        /\ s = 1 \/ seq[s - 1].raw # seq[k].raw

RECURSIVE SumDt(_, _, _)
SumDt(seq, a, b) == IF a > b THEN 0 ELSE seq[b].dt + SumDt(seq, a, b - 1)

\* how long the level of poll k has been read unchanged, as of poll k
Held(seq, k) == SumDt(seq, RunStart(seq, k) + 1, k)

\* the stable level before poll k
StableBefore(seq, k) == IF k = 1 THEN "HIGH" ELSE seq[k - 1].stable

\* the polls among a..b that committed an edge
Edges(seq, a, b) == {j \in a..b : seq[j].stable # StableBefore(seq, j)}

\* no level was read unchanged for more than debounceMs
Fast(seq) == \A k \in 1..Len(seq) : Held(seq, k) <= debounceMs

(* C3: debounce, fast toggling. As long as no level has been read unchanged *)
(* for more than debounceMs, no poll has committed an edge: the stable      *)
(* level is still the initial HIGH and running was never toggled.           *)
C3_FastToggleNoEdge ==
    Fast(hist.samples) =>
        /\ button.stableButtonState = "HIGH"
        /\ running = FALSE
        /\ state = "STATE_IDLE"
        /\ Edges(hist.samples, 1, Len(hist.samples)) = {}

\* five polls, three observed changes, a LOW level read for exactly 50 ms
C3_Witness ==
    /\ Len(hist.samples) >= 5
    /\ Fast(hist.samples)
    /\ Cardinality({k \in 2..Len(hist.samples) :
                       hist.samples[k].raw # hist.samples[k - 1].raw}) >= 3
    /\ \E k \in 1..Len(hist.samples) :
          /\ hist.samples[k].raw = "LOW"
          /\ Held(hist.samples, k) = debounceMs

(* C4: debounce, settled level. In the run of equal levels that ends with   *)
(* the latest poll: if the level differs from the stable level the run      *)
(* found, exactly the first poll more than debounceMs after the run's first *)
(* poll commits an edge (none while no such poll happened); if it equals    *)
(* that stable level, no poll of the run commits an edge.                   *)
C4_SettledOneEdge ==
    LET seq == hist.samples
        k == Len(seq)
    IN  k > 0 =>
          LET s == RunStart(seq, k)
              late == {j \in s..k : Held(seq, j) > debounceMs}
              first == {j \in late : \A i \in late : j <= i}
          IN  Edges(seq, s, k) =
                 IF seq[k].raw # StableBefore(seq, s) THEN first ELSE {}

\* a press held: the edge committed at a poll, and two later polls, more
\* than 100 ms in all, added none
C4_Witness ==
    LET seq == hist.samples
        k == Len(seq)
    IN  /\ k >= 4
        /\ seq[k].raw = "LOW"
        /\ Edges(seq, RunStart(seq, k), k) = {k - 2}
        /\ Held(seq, k) > Held(seq, k - 2) + 2 * debounceMs
        /\ running

\* the step commits a press of the GO switch
PressCommitted ==
    button.stableButtonState = "HIGH" /\ button'.stableButtonState = "LOW"

\* the run flag before poll k
RunningBefore(seq, k) == IF k = 1 THEN FALSE ELSE seq[k - 1].running

\* the polls among a..b that flipped the run flag
Flips(seq, a, b) == {j \in a..b : seq[j].running # RunningBefore(seq, j)}

\* the polls among a..b that committed a falling edge (a press)
Presses(seq, a, b) ==
    {j \in a..b : StableBefore(seq, j) = "HIGH" /\ seq[j].stable = "LOW"}

(* C17: the run flag toggles exactly on committed falling edges. The polls  *)
(* that flipped running are the polls that committed the stable level from  *)
(* HIGH to LOW; a step that commits it from LOW to HIGH leaves running, the *)
(* phase and the motors unchanged; a step flips running exactly when it     *)
(* commits a press; and the polls of one held LOW level flip running at     *)
(* most once, however long it is held.                                      *)
C17_ToggleOnFallingEdge ==
    /\ [](LET seq == hist.samples
              k == Len(seq)
          IN  /\ Flips(seq, 1, k) = Presses(seq, 1, k)
              /\ k > 0 =>
                    Cardinality(Flips(seq, RunStart(seq, k), k)) <= 1)
    /\ [][(running' # running) <=> PressCommitted]_vars
    /\ [][(button.stableButtonState = "LOW" /\ button'.stableButtonState = "HIGH") =>
             (running' = running /\ state' = state /\ motor' = motor)]_vars

\* a press committed and held for two more polls, then a release committed:
\* running was flipped once and is still true
C17_Witness ==
    LET seq == hist.samples
        k == Len(seq)
    IN  /\ k >= 5
        /\ StableBefore(seq, k) = "LOW" /\ seq[k].stable = "HIGH"
        /\ \E j \in 1..k : seq[j].raw = "LOW" /\ Held(seq, j) > 2 * debounceMs
        /\ Cardinality(Flips(seq, 1, k)) = 1
        /\ running
        /\ state = "STATE_PHASE1"

-----------------------------------------------------------------------------
(* The FSM ticks of Spec *)

IsTick == hist.op \in {"loop_full", "loop_testLeftOnly"}

Sentinel == readUltrasonicCM(0)

AllSentinel ==
    /\ dist.leftDistCM = Sentinel
    /\ dist.rightDistCM = Sentinel
    /\ dist.frontDistCM = Sentinel

\* the phase the switch statement of the last tick saw, when that tick found
\* running true after updateGoSwitch(): a tick that started stopped was
\* started by a press, which sets STATE_PHASE1
SwitchState == IF hist.running0 THEN hist.state0 ELSE "STATE_PHASE1"

Ord(st) ==
    CASE st = "STATE_IDLE" -> 0
      [] st = "STATE_PHASE1" -> 1
      [] st = "STATE_PHASE2" -> 2
      [] st = "STATE_PHASE3" -> 3
      [] st = "STATE_PHASE4" -> 4
      [] st = "STATE_PHASE5" -> 5
      [] st = "STATE_PHASE6" -> 6
      [] st = "STATE_DONE" -> 7

Halted ==
    /\ motor.currentLeftSpeed = 0 /\ motor.currentRightSpeed = 0
    /\ motor.targetLeftSpeed = 0 /\ motor.targetRightSpeed = 0

Straight ==
    /\ motor.targetLeftSpeed = 255 /\ motor.targetRightSpeed = 255
    /\ motor.IN1 = "HIGH" /\ motor.IN2 = "LOW"
    /\ motor.IN3 = "HIGH" /\ motor.IN4 = "LOW"

ArcLeft ==
    /\ motor.targetLeftSpeed = 127 /\ motor.targetRightSpeed = 255
    /\ motor.IN1 = "HIGH" /\ motor.IN2 = "LOW"
    /\ motor.IN3 = "HIGH" /\ motor.IN4 = "LOW"

(* C5: idle dominance. In both modes, a tick that finds running false when  *)
(* it tests it ends with state STATE_IDLE and with current and target duty  *)
(* 0 on both sides, whatever the readings and the phase it started in.      *)
C5_IdleDominance ==
    (IsTick /\ ~running) => (state = "STATE_IDLE" /\ Halted)

\* a full-mode tick that started in Phase3 with the left side moving, read
\* real distances, and found running false
C5_Witness ==
    /\ hist.op = "loop_full"
    /\ ~running
    /\ hist.state0 = "STATE_PHASE3"
    /\ hist.pre.currentLeftSpeed > 0
    /\ dist.rightDistCM # Sentinel
    /\ state = "STATE_IDLE"
    /\ Halted

(* C6: phase monotonicity (full mode). A loop_full() tick that starts and   *)
(* ends with running true leaves the phase unchanged or moves it to its     *)
(* immediate successor in Phase1, ..., Phase6, Done.                        *)
C6_PhaseMonotonic ==
    (hist.op = "loop_full" /\ hist.running0 /\ running) =>
        /\ Ord(hist.state0) >= 1
        /\ Ord(state) \in {Ord(hist.state0), Ord(hist.state0) + 1}

\* the last step of the order was taken
C6_Witness ==
    /\ hist.op = "loop_full"
    /\ hist.running0 /\ running
    /\ hist.state0 = "STATE_PHASE6"
    /\ state = "STATE_DONE"

(* C7: sentinel safety. A running loop_full() tick whose switch sees Phase1 *)
(* while all three channels hold the no-echo value 999 leaves the phase     *)
(* Phase1 and commands straight drive (both targets full, both sides        *)
(* forward).                                                                *)
C7_SentinelHoldsPhase1 ==
    (hist.op = "loop_full" /\ running /\ SwitchState = "STATE_PHASE1" /\ AllSentinel) =>
        (state = "STATE_PHASE1" /\ Straight)

\* such a tick after pings that returned no echo replaced real readings
C7_Witness ==
    /\ hist.op = "loop_full"
    /\ hist.running0 /\ running
    /\ hist.state0 = "STATE_PHASE1"
    /\ AllSentinel
    /\ pingElapsed.left < PING_INTERVAL
    /\ state = "STATE_PHASE1"
    /\ Straight

(* C8 as claimed: in both modes, a running tick whose readings are all the  *)
(* sentinel leaves the phase as it found it.                                *)
C8_SentinelNoChange ==
    (IsTick /\ hist.running0 /\ running /\ AllSentinel) => state = hist.state0

(* C8 amended: such a tick leaves the phase as it found it, except in       *)
(* TestLeftOnly mode in Phase2, which it returns to Phase1.                 *)
C8_SentinelNoAdvance ==
    (IsTick /\ hist.running0 /\ running /\ AllSentinel) =>
        state = IF mode = 2 /\ hist.state0 = "STATE_PHASE2"
                THEN "STATE_PHASE1" ELSE hist.state0

\* a full-mode tick in Phase3 held there by the sentinel
C8_Witness ==
    /\ hist.op = "loop_full"
    /\ hist.running0 /\ running
    /\ AllSentinel
    /\ hist.state0 = "STATE_PHASE3"
    /\ state = "STATE_PHASE3"

(* C9: scenario (full mode, default calibration). With L = 20 cm and no     *)
(* echo right and front, a tick in Phase1 stays in Phase1 and commands      *)
(* straight. With L = 14 cm, a tick in Phase1 advances to Phase2, and a     *)
(* tick in Phase2 stays there and commands arc-left: left target 127 (50%), *)
(* right target 255 (100%). With R = 10 cm, a tick in Phase2 advances to    *)
(* Phase3, and a tick in Phase3 stays there and commands straight. The      *)
(* readings are those of the echo durations nearest to 20, 14 and 10 cm.    *)
C9_Scenario ==
    LET L20 == dist.leftDistCM = readUltrasonicCM(1167)
        L14 == dist.leftDistCM = readUltrasonicCM(816)
        R10 == dist.rightDistCM = readUltrasonicCM(583)
        noR == dist.rightDistCM = Sentinel
        noF == dist.frontDistCM = Sentinel
    IN  (hist.op = "loop_full" /\ running) =>
          /\ (SwitchState = "STATE_PHASE1" /\ L20 /\ noR /\ noF) =>
                (state = "STATE_PHASE1" /\ Straight)
          /\ (SwitchState = "STATE_PHASE1" /\ L14 /\ noR /\ noF) =>
                state = "STATE_PHASE2"
          /\ (SwitchState = "STATE_PHASE2" /\ L14 /\ noR /\ noF) =>
                (state = "STATE_PHASE2" /\ ArcLeft)
          /\ (SwitchState = "STATE_PHASE2" /\ R10) =>
                state = "STATE_PHASE3"
          /\ (SwitchState = "STATE_PHASE3" /\ R10) =>
                (state = "STATE_PHASE3" /\ Straight)

\* the tick that reads R = 10 cm in Phase2, after the arc at L = 14 cm
C9_Witness ==
    /\ hist.op = "loop_full"
    /\ hist.running0 /\ running
    /\ hist.state0 = "STATE_PHASE2"
    /\ dist.leftDistCM = readUltrasonicCM(816)
    /\ dist.rightDistCM = readUltrasonicCM(583)
    /\ state = "STATE_PHASE3"
    /\ ArcLeft

-----------------------------------------------------------------------------
(* setMotorTargetsPct() *)

\* the PWM value of a percentage, clamped first
Scaled(pct) ==
    IF pct <= 0 THEN 0
    ELSE IF pct >= 100 THEN MAX_SPEED
    ELSE (pct * MAX_SPEED) \div 100

(* C10: clamping instead of rejection. After setMotorTargetsPct(l, r), for  *)
(* any integers l and r, the target of each side is the PWM value of its    *)
(* argument clamped to [0,100]; in every state both targets lie in          *)
(* 0..MAX_SPEED and the motor record is well formed (no error outcome).     *)
C10_ClampedTargets ==
    /\ hist.op = "setMotorTargetsPct" =>
          /\ motor.targetLeftSpeed = Scaled(hist.args[1])
          /\ motor.targetRightSpeed = Scaled(hist.args[2])
    /\ motor.targetLeftSpeed \in 0..MAX_SPEED
    /\ motor.targetRightSpeed \in 0..MAX_SPEED
    /\ motor.currentDirection \in {"STOP", "FORWARD"}
    /\ {motor.IN1, motor.IN2, motor.IN3, motor.IN4} \subseteq Levels

\* the extreme arguments, while the robot was moving
C10_Witness ==
    /\ hist.op = "setMotorTargetsPct"
    /\ hist.args = <<-32768, 32767>>
    /\ motor.currentLeftSpeed > 0
    /\ motor.targetLeftSpeed = 0
    /\ motor.targetRightSpeed = 255

\* a percentage argument brought into 0..100
ClampPct(pct) == Max(0, Min(pct, 100))

BrakedLines ==
    /\ motor.IN1 = "LOW" /\ motor.IN2 = "LOW"
    /\ motor.IN3 = "LOW" /\ motor.IN4 = "LOW"

ForwardLines ==
    /\ motor.IN1 = "HIGH" /\ motor.IN2 = "LOW"
    /\ motor.IN3 = "HIGH" /\ motor.IN4 = "LOW"

(* C11: setMotorTargetsPct(l, r). When both arguments clamp to 0, the call  *)
(* itself leaves current and target speed 0 on both sides, duty 0 on both   *)
(* enable lines and all four direction lines LOW, whatever the speeds were  *)
(* before.  When at least one clamps to a nonzero percentage, it leaves     *)
(* both sides with forward polarity, direction FORWARD, the targets set to  *)
(* the PWM values of the clamped arguments, and the current speeds and      *)
(* duties as they were.                                                     *)
C11_StopOrForward ==
    hist.op = "setMotorTargetsPct" =>
        IF ClampPct(hist.args[1]) = 0 /\ ClampPct(hist.args[2]) = 0
        THEN /\ Halted
             /\ motor.ENA = 0 /\ motor.ENB = 0
             /\ BrakedLines
             /\ motor.currentDirection = "STOP"
        ELSE /\ ForwardLines
             /\ motor.currentDirection = "FORWARD"
             /\ motor.targetLeftSpeed = Scaled(hist.args[1])
             /\ motor.targetRightSpeed = Scaled(hist.args[2])
             /\ motor.currentLeftSpeed = hist.pre.currentLeftSpeed
             /\ motor.currentRightSpeed = hist.pre.currentRightSpeed
             /\ motor.ENA = hist.pre.ENA /\ motor.ENB = hist.pre.ENB

\* a call with one side 0 and the other 50 that found both sides moving: no
\* stop, the left side keeps its speed and will ramp down
C11_Witness ==
    /\ hist.op = "setMotorTargetsPct"
    /\ hist.args = <<0, 50>>
    /\ hist.pre.currentLeftSpeed > 0
    /\ motor.currentLeftSpeed > 0
    /\ motor.targetLeftSpeed = 0
    /\ motor.targetRightSpeed = 127
    /\ ForwardLines

-----------------------------------------------------------------------------
(* Done and the run switch, in Spec *)

(* C14: Done is terminal. The phase is Done only in full mode, while        *)
(* running, with current and target speed 0 on both sides, and that holds   *)
(* in every state until the phase leaves Done, whatever the readings; a     *)
(* step leaves Done only to Idle with running dropped to false, on a        *)
(* committed press of the switch; and a step leaves Idle only on a          *)
(* run-enable (a committed press that takes running from false to true),    *)
(* which enters Phase1: the step ends in what the Phase1 case of the same   *)
(* tick leaves, Phase1 or Phase2.                                           *)
C14_DoneTerminal ==
    /\ [](state = "STATE_DONE" => (mode = 1 /\ running /\ Halted))
    /\ [][state = "STATE_DONE" =>
             \/ state' = "STATE_DONE"
             \/ state' = "STATE_IDLE" /\ ~running' /\ PressCommitted]_vars
    /\ [][(state = "STATE_IDLE" /\ state' # "STATE_IDLE") =>
             /\ ~running /\ running' /\ PressCommitted
             /\ state' \in {"STATE_PHASE1", "STATE_PHASE2"}]_vars

\* a tick in Done with real readings on every channel, the front one clear
\* of the stop distance: still Done, still stopped
C14_Witness ==
    /\ hist.op = "loop_full"
    /\ hist.running0 /\ running
    /\ hist.state0 = "STATE_DONE"
    /\ dist.frontDistCM # Sentinel
    /\ dist.frontDistCM > cal.F_stop_dist
    /\ dist.leftDistCM # Sentinel
    /\ dist.rightDistCM # Sentinel
    /\ state = "STATE_DONE"
    /\ Halted

(* C15: Done is entered only from Phase6. A step that makes the phase Done  *)
(* is a full-mode tick that started running in Phase6 with the front        *)
(* distance at most F_stop_dist, and it ends with current and target speed  *)
(* 0 on both sides.                                                         *)
C15_DoneOnlyFromPhase6 ==
    [][(state # "STATE_DONE" /\ state' = "STATE_DONE") =>
          /\ mode = 1 /\ pc = "fsm"
          /\ state = "STATE_PHASE6"
          /\ running /\ running'
          /\ dist.frontDistCM <= cal.F_stop_dist
          /\ motor'.currentLeftSpeed = 0 /\ motor'.currentRightSpeed = 0
          /\ motor'.targetLeftSpeed = 0 /\ motor'.targetRightSpeed = 0]_vars

\* the tick that entered Done found both sides moving
C15_Witness ==
    /\ hist.op = "loop_full"
    /\ hist.state0 = "STATE_PHASE6"
    /\ state = "STATE_DONE"
    /\ dist.frontDistCM <= cal.F_stop_dist
    /\ hist.pre.currentLeftSpeed > 0
    /\ hist.pre.currentRightSpeed > 0
    /\ Halted

\* the last tick committed a run-enable: running went from false to true
RunEnabled == IsTick /\ ~hist.running0 /\ running

LeftInBand == inRange(dist.leftDistCM, cal.L_detect_min, cal.L_detect_max)

(* C16 as claimed: a tick that takes running from false to true starts in   *)
(* Idle and ends in Phase1, for all readings.                               *)
C16_RunEnableEndsInPhase1 ==
    RunEnabled => (hist.state0 = "STATE_IDLE" /\ state = "STATE_PHASE1")

(* C16 amended: a tick that takes running from false to true starts in Idle *)
(* and enters Phase1, whose case the same tick executes: it commands        *)
(* straight drive and ends in Phase2 when L is in [L_detect_min,            *)
(* L_detect_max], in Phase1 otherwise, and in no other phase, in both       *)
(* modes; the phase never changes while running stays false.                *)
C16_RunEnableEntersPhase1 ==
    /\ RunEnabled =>
          /\ hist.state0 = "STATE_IDLE"
          /\ state = IF LeftInBand THEN "STATE_PHASE2" ELSE "STATE_PHASE1"
          /\ Straight
    /\ ~running => state = "STATE_IDLE"

\* a run-enable tick with R = 10 cm, which would move Phase2 on, and L out
\* of the band: Phase1
C16_Witness ==
    /\ RunEnabled
    /\ hist.op = "loop_full"
    /\ dist.rightDistCM <= cal.R_inner_close
    /\ ~LeftInBand
    /\ dist.leftDistCM # Sentinel
    /\ state = "STATE_PHASE1"
    /\ Straight

(* C18: TestLeftOnly edges. A running loop_testLeftOnly() tick whose switch *)
(* sees Phase2 ends in Phase1 if L > L_detect_max or R <= R_inner_close,    *)
(* and in Phase2 otherwise; one whose switch sees Phase1 ends in Phase2     *)
(* exactly when L is in [L_detect_min, L_detect_max], and in Phase1         *)
(* otherwise.                                                               *)
C18_TestLeftOnlyEdges ==
    (hist.op = "loop_testLeftOnly" /\ running) =>
        /\ SwitchState = "STATE_PHASE2" =>
              state = IF \/ dist.leftDistCM > cal.L_detect_max
                         \/ dist.rightDistCM <= cal.R_inner_close
                      THEN "STATE_PHASE1" ELSE "STATE_PHASE2"
        /\ SwitchState = "STATE_PHASE1" =>
              state = IF LeftInBand THEN "STATE_PHASE2" ELSE "STATE_PHASE1"

\* a tick in Phase2 with L still in the band and R = 10 cm: back to Phase1
C18_Witness ==
    /\ hist.op = "loop_testLeftOnly"
    /\ hist.running0 /\ running
    /\ hist.state0 = "STATE_PHASE2"
    /\ LeftInBand
    /\ dist.rightDistCM <= cal.R_inner_close
    /\ state = "STATE_PHASE1"
    /\ ArcLeft

-----------------------------------------------------------------------------
(* The three sketches *)

(* C12: the hard stop is idempotent. In every reachable state of each       *)
(* sketch, calling its stopMotors() twice in a row leaves the same motor    *)
(* record (speeds, targets, the levels and duties written to the six motor  *)
(* lines, direction) as calling it once; right after the serial stop        *)
(* command one more call changes nothing; and the integrated sketch's tick  *)
(* that commits the toggle-off, which calls stopMotors() in updateGoSwitch()*)
(* and again in the !running guard, leaves what one call leaves.            *)
C12_StopIdempotent ==
    /\ mode = 0 => stopMotorsIno(stopMotorsIno(motor)) = stopMotorsIno(motor)
    /\ mode \in {1, 2} => stopMotors(stopMotors(motor)) = stopMotors(motor)
    /\ mode = 3 => stopMotorsBtn(stopMotorsBtn(motor)) = stopMotorsBtn(motor)
    /\ (mode = 0 /\ hist.op = "s") => stopMotorsIno(motor) = motor
    /\ (IsTick /\ hist.running0 /\ ~running) => motor = stopMotors(hist.pre)

\* the serial stop command found the robot pivoting, mid-ramp
C12_Witness ==
    /\ mode = 0
    /\ hist.op = "s"
    /\ hist.pre.currentDirection = "LEFT_TURN"
    /\ hist.pre.currentLeftSpeed > 0
    /\ hist.pre.currentLeftSpeed < MAX_SPEED
    /\ stopMotorsIno(motor) = motor
    /\ motor # hist.pre

InDutyRange(v) == v \in 0..MAX_SPEED

(* C13: duty range. In every reachable state of every sketch, after any     *)
(* sequence of commands, ramp steps, hard stops and FSM ticks, the current  *)
(* and the target speed of each side, and the duty last written to each     *)
(* enable line, lie in 0..MAX_SPEED.                                        *)
C13_DutyRange ==
    /\ InDutyRange(motor.currentLeftSpeed)
    /\ InDutyRange(motor.currentRightSpeed)
    /\ InDutyRange(motor.targetLeftSpeed)
    /\ InDutyRange(motor.targetRightSpeed)
    /\ InDutyRange(motor.ENA)
    /\ InDutyRange(motor.ENB)

\* button sketch: the inputs were released during a left turn; the left side
\* is on its way down from the turn speed 127, less than one ramp step from
\* the floor, the right side on its way down from full speed
C13_Witness ==
    /\ mode = 3
    /\ motor.currentDirection = "STOP"
    /\ motor.targetLeftSpeed = 0
    /\ motor.currentLeftSpeed \in 1..(RAMP_RATE_BTN - 1)
    /\ motor.currentRightSpeed > MAX_SPEED \div 2

\* the integrated sketch's loop() is running
Integrated == mode \in {1, 2} /\ pc # "calls"

TickOps == {"loop_full", "loop_testLeftOnly"}
RampStageOps == {"rampSpeed", "noRamp"}

\* the serial commands whose handler writes the motor lines
OutputCmds == {"w", "z", "a", "d", "s"}

Writers(op) ==
    CASE op = "rampSpeed" -> {"rampSpeed"}
      [] op \in {"stopMotors", "s"} -> {"stopMotors"}
      [] op \in {"driveStraight", "driveLeftArc"} -> {"setMotorTargetsPct"}
      [] op \in TickOps -> {"setMotorTargetsPct", "stopMotors"}
      [] op \in {"w", "z", "a", "d"} -> {"handleCommand"}
      [] op = "setDirection" -> {"setDirection", "rampSpeed"}
      [] OTHER -> {}

CurrentChanged ==
    \/ motor'.currentLeftSpeed # motor.currentLeftSpeed
    \/ motor'.currentRightSpeed # motor.currentRightSpeed

TargetChanged ==
    \/ motor'.targetLeftSpeed # motor.targetLeftSpeed
    \/ motor'.targetRightSpeed # motor.targetRightSpeed

(* C20 as claimed: in every sketch, a step that changes the current or the  *)
(* target speed of a side does so inside rampSpeed(), setMotorTargetsPct()  *)
(* or stopMotors() only.                                                    *)
C20_SingleWriter ==
    [][(CurrentChanged \/ TargetChanged) =>
          /\ Writers(hist'.op) # {}
          /\ Writers(hist'.op) \subseteq
                {"rampSpeed", "setMotorTargetsPct", "stopMotors"}]_vars

(* C20 amended: in every sketch the current speed of a side is changed only *)
(* inside rampSpeed() and stopMotors(). The target speed is changed only    *)
(* inside setMotorTargetsPct() and stopMotors() in the integrated sketch,   *)
(* inside handleCommand() and stopMotors() in the serial sketch, and inside *)
(* setDirection() in the button sketch's loop. The sensor refresh, a ramp   *)
(* stage that is not due and an ignored character change neither.           *)
C20_Writers ==
    /\ [][CurrentChanged =>
             Writers(hist'.op) \cap {"rampSpeed", "stopMotors"} # {}]_vars
    /\ [][(TargetChanged /\ mode \in {1, 2}) =>
             /\ Writers(hist'.op) # {}
             /\ Writers(hist'.op) \subseteq {"setMotorTargetsPct", "stopMotors"}]_vars
    /\ [][(TargetChanged /\ mode = 0) =>
             /\ Writers(hist'.op) # {}
             /\ Writers(hist'.op) \subseteq {"handleCommand", "stopMotors"}]_vars
    /\ [][(TargetChanged /\ mode = 3) => "setDirection" \in Writers(hist'.op)]_vars

\* serial sketch: 'a' set both targets at a standstill; the current speeds
\* are still 0
C20_Witness ==
    /\ mode = 0
    /\ hist.op = "a"
    /\ motor.currentDirection = "LEFT_TURN"
    /\ motor.targetLeftSpeed = MAX_SPEED /\ motor.targetRightSpeed = MAX_SPEED
    /\ motor.currentLeftSpeed = 0 /\ motor.currentRightSpeed = 0
    /\ motor.IN2 = "HIGH" /\ motor.IN3 = "HIGH"

-----------------------------------------------------------------------------
(* The serial commands *)

\* characters that are no command: the two the serial line of SpecSerial
\* delivers, and the upper-case letters, a blank and a digit
OtherChars == (Chars \ OutputCmds) \cup {"W", "S", " ", "0"}

(* C21: unknown input. In every reachable state of the serial sketch,       *)
(* handleCommand(c) for a character c other than w, z, a, d, s returns the  *)
(* motor record as it was (speeds, targets, the levels and duties of the    *)
(* six motor lines, currentDirection), and the step of loop() that handles  *)
(* such a character leaves it unchanged.                                    *)
C21_UnknownIgnored ==
    /\ [](\A ch \in OtherChars : handleCommand(motor, ch) = motor)
    /\ [][(pc = "serial" /\ hist'.op \in OtherChars) => motor' = motor]_vars

\* 'x' arrived while the robot was ramping up backward: nothing changed and
\* the ramp stage is next
C21_Witness ==
    /\ mode = 0
    /\ pc = "ramp"
    /\ hist.op = "x"
    /\ motor.currentDirection = "BACKWARD"
    /\ motor.IN2 = "HIGH" /\ motor.IN4 = "HIGH"
    /\ motor.currentLeftSpeed > 0
    /\ motor.currentLeftSpeed < motor.targetLeftSpeed
    /\ motor.ENA = motor.currentLeftSpeed

LeftForward == motor.IN1 = "HIGH" /\ motor.IN2 = "LOW"
LeftReverse == motor.IN1 = "LOW" /\ motor.IN2 = "HIGH"
RightForward == motor.IN3 = "HIGH" /\ motor.IN4 = "LOW"
RightReverse == motor.IN3 = "LOW" /\ motor.IN4 = "HIGH"

BothTargetsMax ==
    motor.targetLeftSpeed = MAX_SPEED /\ motor.targetRightSpeed = MAX_SPEED

(* C22: the command mapping of the serial sketch. Right after the command,  *)
(* 'w' has both sides forward, 'z' both sides reverse, 'a' the left side    *)
(* reverse and the right side forward, 'd' the left side forward and the    *)
(* right side reverse, each with both targets MAX_SPEED and the matching    *)
(* currentDirection; 's' has current and target speed 0, duty 0 and all     *)
(* four lines LOW.                                                          *)
C22_CommandMapping ==
    /\ hist.op = "w" =>
          (LeftForward /\ RightForward /\ BothTargetsMax
              /\ motor.currentDirection = "FORWARD")
    /\ hist.op = "z" =>
          (LeftReverse /\ RightReverse /\ BothTargetsMax
              /\ motor.currentDirection = "BACKWARD")
    /\ hist.op = "a" =>
          (LeftReverse /\ RightForward /\ BothTargetsMax
              /\ motor.currentDirection = "LEFT_TURN")
    /\ hist.op = "d" =>
          (LeftForward /\ RightReverse /\ BothTargetsMax
              /\ motor.currentDirection = "RIGHT_TURN")
    /\ hist.op = "s" =>
          (Halted /\ motor.ENA = 0 /\ motor.ENB = 0 /\ BrakedLines
              /\ motor.currentDirection = "STOP")

\* 'd' arrived while the robot was moving, mid-ramp: the lines are set for
\* the pivot at once, at the speed the robot had
C22_Witness ==
    /\ hist.op = "d"
    /\ pc = "ramp"
    /\ LeftForward /\ RightReverse
    /\ motor.currentRightSpeed > 0
    /\ motor.currentRightSpeed < MAX_SPEED
    /\ motor.ENB = motor.currentRightSpeed
    /\ BothTargetsMax

-----------------------------------------------------------------------------
(* The sequencer's commands, in Spec *)

LeftBraked == motor.IN1 = "LOW" /\ motor.IN2 = "LOW"
RightBraked == motor.IN3 = "LOW" /\ motor.IN4 = "LOW"

(* C23: the sequencer never commands reverse. In both FSM modes, in every   *)
(* reachable state, the two direction lines of each side are forward (PIN1  *)
(* HIGH, PIN2 LOW) or braked (both LOW), never reverse (PIN1 LOW, PIN2      *)
(* HIGH), and currentDirection is FORWARD or STOP.                          *)
C23_NeverReverse ==
    /\ LeftForward \/ LeftBraked
    /\ RightForward \/ RightBraked
    /\ ~LeftReverse /\ ~RightReverse
    /\ motor.currentDirection \in {"FORWARD", "STOP"}

\* full mode, a tick in Phase5: the right arc has both sides forward, the
\* right one slowed
C23_Witness ==
    /\ hist.op = "loop_full"
    /\ hist.running0 /\ running
    /\ hist.state0 = "STATE_PHASE5"
    /\ LeftForward /\ RightForward
    /\ motor.targetRightSpeed < motor.targetLeftSpeed
    /\ motor.targetRightSpeed > 0

-----------------------------------------------------------------------------
(* The button-input sketch, in SpecButton *)

(* C24: Stop mode of the button sketch. A pass of loop() that ends with the *)
(* selected direction STOP leaves both targets 0, takes the current speed   *)
(* of each side RAMP_RATE down (not below 0), and leaves the motors braked: *)
(* both direction pins of each side LOW.                                    *)
C24_StopRampsDownBraked ==
    [][motor'.currentDirection = "STOP" =>
          /\ motor'.targetLeftSpeed = 0 /\ motor'.targetRightSpeed = 0
          /\ motor'.currentLeftSpeed = Max(motor.currentLeftSpeed - RAMP_RATE_BTN, 0)
          /\ motor'.currentRightSpeed = Max(motor.currentRightSpeed - RAMP_RATE_BTN, 0)
          /\ motor'.IN1 = "LOW" /\ motor'.IN2 = "LOW"
          /\ motor'.IN3 = "LOW" /\ motor'.IN4 = "LOW"]_vars

Turns == {"LEFT_TURN", "RIGHT_TURN"}

(* C25: input priority of the button sketch. For every combination of the   *)
(* four inputs, if the forward or the backward input is pressed, the        *)
(* direction loop() selects, and has set when the pass ends, is neither     *)
(* LEFT_TURN nor RIGHT_TURN.                                                *)
C25_DriveInputsOverrideTurn ==
    \A forwardPressed \in BOOLEAN, backwardPressed \in BOOLEAN,
       leftPressed \in BOOLEAN, rightPressed \in BOOLEAN :
        (forwardPressed \/ backwardPressed) =>
            /\ desiredDirection(forwardPressed, backwardPressed,
                                leftPressed, rightPressed) \notin Turns
            /\ loopBtn(motor, forwardPressed, backwardPressed,
                       leftPressed, rightPressed).currentDirection \notin Turns

(* C26: smooth ramping of the button sketch. After setup(), for every       *)
(* sequence of input combinations, the PWM duty written to the enable line  *)
(* of each side, and the current speed it follows, change by at most        *)
(* RAMP_RATE in one pass of loop(), up or down; that includes the pass that *)
(* reverses the direction lines, which keeps the duty it found.             *)
C26_DutyStepBounded ==
    [][/\ Abs(motor'.ENA - motor.ENA) <= RAMP_RATE_BTN
       /\ Abs(motor'.ENB - motor.ENB) <= RAMP_RATE_BTN
       /\ motor'.ENA = motor'.currentLeftSpeed
       /\ motor'.ENB = motor'.currentRightSpeed]_vars

\* BACKWARD was selected with both sides at full duty: the lines are
\* reversed and the duty is still full
C26_Witness ==
    /\ hist.op = "setDirection"
    /\ motor.currentDirection = "BACKWARD"
    /\ LeftReverse /\ RightReverse
    /\ motor.ENA = MAX_SPEED /\ motor.ENB = MAX_SPEED

-----------------------------------------------------------------------------
(* The thresholds, in SpecThresholds *)

\* the phase after st
Succ(st) ==
    CASE st = "STATE_PHASE1" -> "STATE_PHASE2"
      [] st = "STATE_PHASE2" -> "STATE_PHASE3"
      [] st = "STATE_PHASE3" -> "STATE_PHASE4"
      [] st = "STATE_PHASE4" -> "STATE_PHASE5"
      [] st = "STATE_PHASE5" -> "STATE_PHASE6"
      [] st = "STATE_PHASE6" -> "STATE_DONE"

\* the readings that advance phase st: a closed band or everything up to a
\* threshold, the bounds included
Advancing(st) ==
    CASE st = "STATE_PHASE1" ->
           dist.leftDistCM \in cal.L_detect_min..cal.L_detect_max
      [] st = "STATE_PHASE2" ->
           dist.rightDistCM \in 0..cal.R_inner_close
      [] st = "STATE_PHASE3" ->
           dist.rightDistCM \in cal.R_outer_far_min..cal.R_outer_far_max
      [] st = "STATE_PHASE4" ->
           dist.rightDistCM \in cal.R_outer_turn_min..cal.R_outer_turn_max
      [] st = "STATE_PHASE5" ->
           dist.frontDistCM \in 0..cal.F_final_detect
      [] st = "STATE_PHASE6" ->
           dist.frontDistCM \in 0..cal.F_stop_dist

(* C27: inclusive thresholds. In full mode a running tick in Phase1..Phase6 *)
(* advances to the next phase when the reading its condition tests lies in  *)
(* the closed band, or at or below the threshold, a value exactly on a      *)
(* bound included, and stays in its phase for a value outside the band or   *)
(* above the threshold, the nearest such value included.                    *)
C27_InclusiveThresholds ==
    (hist.op = "loop_full" /\ hist.state0 \in Phases) =>
        state = IF Advancing(hist.state0) THEN Succ(hist.state0) ELSE hist.state0

\* Phase3 with R exactly R_outer_far_max advanced to Phase4
C27_Witness ==
    /\ hist.op = "loop_full"
    /\ hist.state0 = "STATE_PHASE3"
    /\ dist.rightDistCM = cal.R_outer_far_max
    /\ state = "STATE_PHASE4"

-----------------------------------------------------------------------------
(* The drive command of a phase, in Spec *)

\* both sides forward with the given targets
Commanded(left, right) ==
    /\ motor.targetLeftSpeed = left /\ motor.targetRightSpeed = right
    /\ ForwardLines

DriveMax == Scaled(DRIVE_MAX_PCT)
DriveSlow == Scaled((DRIVE_MAX_PCT * TURN_SLOW_PCT) \div 100)

\* the command of every phase but Phase6
CommandOfPhase ==
    /\ SwitchState \in {"STATE_PHASE1", "STATE_PHASE3", "STATE_PHASE4"} =>
          Commanded(DriveMax, DriveMax)
    /\ SwitchState = "STATE_PHASE2" => Commanded(DriveSlow, DriveMax)
    /\ SwitchState = "STATE_PHASE5" => Commanded(DriveMax, DriveSlow)
    /\ SwitchState \in {"STATE_IDLE", "STATE_DONE"} => Halted

\* for every TURN_SLOW_PCT in 0..100 the slowed side of an arc gets a target
\* no greater than the other side's
SlowedSideNotFaster ==
    \A p \in 0..100 :
        LET la == setMotorTargetsPct(motor, innerPct(p), DRIVE_MAX_PCT)
            ra == setMotorTargetsPct(motor, DRIVE_MAX_PCT, innerPct(p))
        IN  /\ la.targetLeftSpeed <= la.targetRightSpeed
            /\ ra.targetRightSpeed <= ra.targetLeftSpeed

(* C28 as claimed: in full mode, after a tick that ran its switch statement *)
(* while running, the command in force is the one of the phase the switch   *)
(* saw: straight at DRIVE_MAX_PCT for Phase1, Phase3, Phase4 and Phase6,    *)
(* left slowed for Phase2, right slowed for Phase5, a hard stop for Idle    *)
(* and Done; the slowed side is never the faster one.                       *)
C28_CommandByPhase ==
    /\ (hist.op = "loop_full" /\ running) =>
          /\ CommandOfPhase
          /\ SwitchState = "STATE_PHASE6" => Commanded(DriveMax, DriveMax)
    /\ SlowedSideNotFaster

(* C28, amended: the same, except that the Phase6 tick whose front reading  *)
(* is at or below F_stop_dist issues the hard stop after the straight       *)
(* command and ends halted in Done; every other Phase6 tick commands        *)
(* straight.                                                                *)
C28_CommandByPhaseOrStop ==
    /\ (hist.op = "loop_full" /\ running) =>
          /\ CommandOfPhase
          /\ SwitchState = "STATE_PHASE6" =>
                IF dist.frontDistCM <= cal.F_stop_dist
                THEN Halted /\ state = "STATE_DONE"
                ELSE Commanded(DriveMax, DriveMax) /\ state = "STATE_PHASE6"
    /\ SlowedSideNotFaster

\* a Phase5 tick commanded the right arc
C28_Witness ==
    /\ hist.op = "loop_full" /\ running
    /\ SwitchState = "STATE_PHASE5"
    /\ Commanded(DriveMax, DriveSlow)
    /\ DriveSlow < DriveMax

-----------------------------------------------------------------------------
(* TestLeftOnly mode, in Spec *)

(* C29: TestLeftOnly uses Phase1 and Phase2 only. In every state reachable  *)
(* from setup() with loop() calling loop_testLeftOnly(), whatever the       *)
(* readings and the switch presses, the phase is Idle, Phase1 or Phase2.    *)
C29_TestLeftOnlyPhases ==
    mode = 2 => state \in {"STATE_IDLE", "STATE_PHASE1", "STATE_PHASE2"}

\* a Phase2 tick with the right reading at or below R_inner_close, where
\* loop_full() goes on to Phase3, went back to Phase1
C29_Witness ==
    /\ mode = 2
    /\ hist.op = "loop_testLeftOnly"
    /\ hist.running0 /\ running
    /\ hist.state0 = "STATE_PHASE2"
    /\ dist.rightDistCM <= cal.R_inner_close
    /\ state = "STATE_PHASE1"

-----------------------------------------------------------------------------
(* Re-issued commands, in SpecActuator *)

\* setMotorTargetsPct(l, r) called now leaves the current speed and the duty
\* of both sides as they are, and a second call with the same pair changes
\* nothing more
ReissueHarmless(l, r) ==
    LET m1 == setMotorTargetsPct(motor, l, r)
    IN  /\ m1.currentLeftSpeed = motor.currentLeftSpeed
        /\ m1.currentRightSpeed = motor.currentRightSpeed
        /\ m1.ENA = motor.ENA /\ m1.ENB = motor.ENB
        /\ setMotorTargetsPct(m1, l, r) = m1

\* how far a side's current speed is from its target
Gap(m) ==
    [left |-> Abs(m.targetLeftSpeed - m.currentLeftSpeed),
     right |-> Abs(m.targetRightSpeed - m.currentRightSpeed)]

\* a drive command that leaves both targets as they were changes nothing, and
\* a ramp step brings each side RAMP_RATE nearer to its target, or onto it
ReissueStep ==
    /\ (/\ hist'.op \in {"driveStraight", "driveLeftArc"}
        /\ motor'.targetLeftSpeed = motor.targetLeftSpeed
        /\ motor'.targetRightSpeed = motor.targetRightSpeed) => motor' = motor
    /\ (hist'.op = "rampSpeed" /\ hist' # hist) =>
          /\ Gap(motor').left = Max(0, Gap(motor).left - RAMP_RATE)
          /\ Gap(motor').right = Max(0, Gap(motor).right - RAMP_RATE)

(* C30 as claimed: setMotorTargetsPct with any pair other than (0,0) leaves *)
(* the current duty of both sides unchanged and is idempotent; a command    *)
(* re-issued between ramp steps changes nothing, so every ramp step still   *)
(* closes the gap to the target.                                            *)
C30_ReissueAnyPair ==
    /\ [](\A l \in Pcts, r \in Pcts : <<l, r>> # <<0, 0>> => ReissueHarmless(l, r))
    /\ [][ReissueStep]_vars

(* C30, amended: the same for every pair whose percentages, clamped to      *)
(* [0,100], are not both 0; a pair that clamps to (0,0), such as (-1,-1),   *)
(* is a hard stop and sets the current duty to 0.                           *)
C30_ReissueKeepsRamp ==
    /\ [](\A l \in Pcts, r \in Pcts :
            (constrain(l, 0, 100) # 0 \/ constrain(r, 0, 100) # 0) =>
                ReissueHarmless(l, r))
    /\ [][ReissueStep]_vars

\* driveStraight() re-issued 25 ramp steps into the ramp from 0 to full speed
\* found and left the left side at 125
C30_Witness ==
    /\ hist.op = "driveStraight"
    /\ hist.startL = 0 /\ hist.nL = 25
    /\ motor.targetLeftSpeed = MAX_SPEED
    /\ motor.currentLeftSpeed = 25 * RAMP_RATE

-----------------------------------------------------------------------------
(* Progress of the sequence, in SpecProgress *)

\* infinitely often the sequencer is not in phase st, or a tick is about to
\* run on readings that satisfy the advance condition of st
EventuallySatisfied(st) == []<>(state = st => (pc = "fsm" /\ Advancing(st)))

ReadingsArrive ==
    /\ EventuallySatisfied("STATE_PHASE1")
    /\ EventuallySatisfied("STATE_PHASE2")
    /\ EventuallySatisfied("STATE_PHASE3")
    /\ EventuallySatisfied("STATE_PHASE4")
    /\ EventuallySatisfied("STATE_PHASE5")
    /\ EventuallySatisfied("STATE_PHASE6")

(* C31: progress to Done. In full mode, if from some point on running stays *)
(* true and, for each of Phase1..Phase6, a tick finds the phase's advance   *)
(* condition satisfied whenever the sequencer stays in that phase, then the *)
(* sequencer reaches Done and stays there with current and target duty 0;   *)
(* and whenever the sequencer is in Done while running, the cases of all    *)
(* six phases have been run since the run was enabled, one per tick, so at  *)
(* least six ticks have run, the enabling tick counted.                     *)
C31_ProgressToDone ==
    /\ [](state = "STATE_DONE" /\ running =>
             (Phases \subseteq hist.cases /\ Cardinality(Phases) = 6))
    /\ (<>[]running /\ ReadingsArrive) => <>[](state = "STATE_DONE" /\ Halted)

\* Done reached by the sixth tick: the six cases have run, and no other
C31_Witness ==
    /\ hist.op = "loop_full"
    /\ running
    /\ hist.state0 = "STATE_PHASE6"
    /\ state = "STATE_DONE"
    /\ Halted
    /\ hist.cases = Phases

-----------------------------------------------------------------------------
(* The run flag, the phase and the outputs at rest, in Spec *)

(* C32: in both FSM modes, in the state setup() leaves and at the end of    *)
(* every tick (hence before and after every other step of loop()), running *)
(* is false if and only if the phase is Idle.                               *)
C32_StoppedIffIdle == (~running) <=> (state = "STATE_IDLE")

\* a left-only test run in Phase2 was switched off: the tick ended in Idle
C32_Witness ==
    /\ mode = 2
    /\ hist.op = "loop_testLeftOnly"
    /\ hist.running0 /\ hist.state0 = "STATE_PHASE2"
    /\ ~running
    /\ state = "STATE_IDLE"

(* C33: in both FSM modes, whenever the phase is Idle or Done, at the end   *)
(* of a tick and after the ramp step that follows it, the current and the   *)
(* target duty of both sides are 0, the four polarity lines are LOW,        *)
(* currentDirection is STOP, and the duty on both enable lines is 0; a      *)
(* ramp step taken now writes duty 0.                                       *)
C33_AtRestOutputs ==
    state \in {"STATE_IDLE", "STATE_DONE"} =>
        /\ Halted
        /\ BrakedLines
        /\ motor.currentDirection = "STOP"
        /\ motor.ENA = 0 /\ motor.ENB = 0
        /\ rampSpeed(motor).ENA = 0 /\ rampSpeed(motor).ENB = 0

\* the tick that entered Done stopped a robot that was moving
C33_Witness ==
    /\ hist.op = "loop_full"
    /\ hist.state0 = "STATE_PHASE6"
    /\ state = "STATE_DONE"
    /\ hist.pre.currentLeftSpeed > 0
    /\ hist.pre.currentDirection = "FORWARD"
    /\ motor.currentDirection = "STOP"
    /\ BrakedLines

-----------------------------------------------------------------------------
(* The two sides of the serial sketch, in SpecSerial *)

(* C34: in every reachable state of the serial sketch the two targets are   *)
(* equal, the two current speeds are equal, and currentDirection is STOP    *)
(* exactly when both targets are 0.                                         *)
C34_SidesEqual ==
    /\ motor.targetLeftSpeed = motor.targetRightSpeed
    /\ motor.currentLeftSpeed = motor.currentRightSpeed
    /\ (motor.currentDirection = "STOP") <=>
          (motor.targetLeftSpeed = 0 /\ motor.targetRightSpeed = 0)

\* a left turn part way up its ramp: the sides turn opposite ways at one duty
C34_Witness ==
    /\ hist.op = "rampSpeed"
    /\ motor.currentDirection = "LEFT_TURN"
    /\ LeftReverse /\ RightForward
    /\ motor.currentLeftSpeed \in 1..(MAX_SPEED - 1)
    /\ motor.currentLeftSpeed = motor.currentRightSpeed
    /\ motor.targetLeftSpeed = MAX_SPEED

=============================================================================
